---- MODULE Spec2Model ----
(***************************************************************************)
(* Model of logger/__init__.py: the one-shot setup_logging routine, the    *)
(* ServiceNameFilter it attaches, and the parts of the standard logging    *)
(* library the routine drives (root level, handler list, module-level      *)
(* logging.error / logging.info, Formatter construction).                  *)
(*                                                                         *)
(* Python strings are sequences of one-character strings, so that          *)
(* str.lower(), str.upper() and int() are computed and not assumed.        *)
(* An optional value (an argument that may be None, an environment         *)
(* variable that may be absent) is <<>> when missing and <<v>> when given. *)
(***************************************************************************)
EXTENDS Integers, Sequences, FiniteSets, TLC

VARIABLES is_configured, root_level, handlers, closed, records, received,
          next_id, calls, applogs, pc, frame

vars == <<is_configured, root_level, handlers, closed, records, received,
          next_id, calls, applogs, pc, frame>>

(***************************************************************************)
(* Bounds                                                                  *)
(***************************************************************************)
MaxCalls == 2
MaxAppLogs == 1
MaxPreHandlers == 2
MaxProvided == 2
MaxProvidedCall == 2
MaxProvidedThread == 1
MaxThreadCalls == 2
NumThreads == 2

(***************************************************************************)
(* Optional values                                                         *)
(***************************************************************************)
None == <<>>
Some(v) == <<v>>
IsNone(o) == Len(o) = 0
Val(o) == o[1]

(***************************************************************************)
(* Characters.  A string is a sequence of characters.  A printable ASCII   *)
(* character other than the grave accent is written as itself; tab,       *)
(* newline, form feed and carriage return as "\t", "\n", "\f" and "\r";    *)
(* every other code point as "U+XXXX", one such string to a character.     *)
(* Outside ASCII the strings of the model are made of: Latin-1             *)
(* Supplement and Latin Extended-A (U+0080 to U+017F), every code point    *)
(* whose upper() or lower() holds an ASCII letter, the white space int()   *)
(* strips, the decimal digits of every script, and the characters upper()  *)
(* and lower() make of these.  The tables are those of the interpreter     *)
(* (Unicode 14).                                                           *)
(***************************************************************************)
LowerLetters == <<"a","b","c","d","e","f","g","h","i","j","k","l","m",
                  "n","o","p","q","r","s","t","u","v","w","x","y","z">>
UpperLetters == <<"A","B","C","D","E","F","G","H","I","J","K","L","M",
                  "N","O","P","Q","R","S","T","U","V","W","X","Y","Z">>
DigitChars == <<"0","1","2","3","4","5","6","7","8","9">>

\* U+0000 to U+007F
AsciiChars ==
    {
      "U+0000", "U+0001", "U+0002", "U+0003", "U+0004", "U+0005", "U+0006",
      "U+0007", "U+0008", "\t", "\n", "U+000B", "\f", "\r", "U+000E",
      "U+000F", "U+0010", "U+0011", "U+0012", "U+0013", "U+0014", "U+0015",
      "U+0016", "U+0017", "U+0018", "U+0019", "U+001A", "U+001B", "U+001C",
      "U+001D", "U+001E", "U+001F", " ", "!", "\"", "#", "$", "%", "&", "'",
      "(", ")", "*", "+", ",", "-", ".", "/", "0", "1", "2", "3", "4", "5",
      "6", "7", "8", "9", ":", ";", "<", "=", ">", "?", "@", "A", "B", "C",
      "D", "E", "F", "G", "H", "I", "J", "K", "L", "M", "N", "O", "P", "Q",
      "R", "S", "T", "U", "V", "W", "X", "Y", "Z", "[", "\\", "]", "^", "_",
      "U+0060", "a", "b", "c", "d", "e", "f", "g", "h", "i", "j", "k", "l", "m",
      "n", "o", "p", "q", "r", "s", "t", "u", "v", "w", "x", "y", "z", "{",
      "|", "}", "~", "U+007F" }

\* <<c, c.upper()>> for the characters outside ASCII that upper() changes
NonAsciiUpper ==
    <<
      <<"U+00B5", <<"U+039C">>>>, <<"U+00DF", <<"S", "S">>>>,
      <<"U+00E0", <<"U+00C0">>>>, <<"U+00E1", <<"U+00C1">>>>,
      <<"U+00E2", <<"U+00C2">>>>, <<"U+00E3", <<"U+00C3">>>>,
      <<"U+00E4", <<"U+00C4">>>>, <<"U+00E5", <<"U+00C5">>>>,
      <<"U+00E6", <<"U+00C6">>>>, <<"U+00E7", <<"U+00C7">>>>,
      <<"U+00E8", <<"U+00C8">>>>, <<"U+00E9", <<"U+00C9">>>>,
      <<"U+00EA", <<"U+00CA">>>>, <<"U+00EB", <<"U+00CB">>>>,
      <<"U+00EC", <<"U+00CC">>>>, <<"U+00ED", <<"U+00CD">>>>,
      <<"U+00EE", <<"U+00CE">>>>, <<"U+00EF", <<"U+00CF">>>>,
      <<"U+00F0", <<"U+00D0">>>>, <<"U+00F1", <<"U+00D1">>>>,
      <<"U+00F2", <<"U+00D2">>>>, <<"U+00F3", <<"U+00D3">>>>,
      <<"U+00F4", <<"U+00D4">>>>, <<"U+00F5", <<"U+00D5">>>>,
      <<"U+00F6", <<"U+00D6">>>>, <<"U+00F8", <<"U+00D8">>>>,
      <<"U+00F9", <<"U+00D9">>>>, <<"U+00FA", <<"U+00DA">>>>,
      <<"U+00FB", <<"U+00DB">>>>, <<"U+00FC", <<"U+00DC">>>>,
      <<"U+00FD", <<"U+00DD">>>>, <<"U+00FE", <<"U+00DE">>>>,
      <<"U+00FF", <<"U+0178">>>>, <<"U+0101", <<"U+0100">>>>,
      <<"U+0103", <<"U+0102">>>>, <<"U+0105", <<"U+0104">>>>,
      <<"U+0107", <<"U+0106">>>>, <<"U+0109", <<"U+0108">>>>,
      <<"U+010B", <<"U+010A">>>>, <<"U+010D", <<"U+010C">>>>,
      <<"U+010F", <<"U+010E">>>>, <<"U+0111", <<"U+0110">>>>,
      <<"U+0113", <<"U+0112">>>>, <<"U+0115", <<"U+0114">>>>,
      <<"U+0117", <<"U+0116">>>>, <<"U+0119", <<"U+0118">>>>,
      <<"U+011B", <<"U+011A">>>>, <<"U+011D", <<"U+011C">>>>,
      <<"U+011F", <<"U+011E">>>>, <<"U+0121", <<"U+0120">>>>,
      <<"U+0123", <<"U+0122">>>>, <<"U+0125", <<"U+0124">>>>,
      <<"U+0127", <<"U+0126">>>>, <<"U+0129", <<"U+0128">>>>,
      <<"U+012B", <<"U+012A">>>>, <<"U+012D", <<"U+012C">>>>,
      <<"U+012F", <<"U+012E">>>>, <<"U+0131", <<"I">>>>,
      <<"U+0133", <<"U+0132">>>>, <<"U+0135", <<"U+0134">>>>,
      <<"U+0137", <<"U+0136">>>>, <<"U+013A", <<"U+0139">>>>,
      <<"U+013C", <<"U+013B">>>>, <<"U+013E", <<"U+013D">>>>,
      <<"U+0140", <<"U+013F">>>>, <<"U+0142", <<"U+0141">>>>,
      <<"U+0144", <<"U+0143">>>>, <<"U+0146", <<"U+0145">>>>,
      <<"U+0148", <<"U+0147">>>>, <<"U+0149", <<"U+02BC", "N">>>>,
      <<"U+014B", <<"U+014A">>>>, <<"U+014D", <<"U+014C">>>>,
      <<"U+014F", <<"U+014E">>>>, <<"U+0151", <<"U+0150">>>>,
      <<"U+0153", <<"U+0152">>>>, <<"U+0155", <<"U+0154">>>>,
      <<"U+0157", <<"U+0156">>>>, <<"U+0159", <<"U+0158">>>>,
      <<"U+015B", <<"U+015A">>>>, <<"U+015D", <<"U+015C">>>>,
      <<"U+015F", <<"U+015E">>>>, <<"U+0161", <<"U+0160">>>>,
      <<"U+0163", <<"U+0162">>>>, <<"U+0165", <<"U+0164">>>>,
      <<"U+0167", <<"U+0166">>>>, <<"U+0169", <<"U+0168">>>>,
      <<"U+016B", <<"U+016A">>>>, <<"U+016D", <<"U+016C">>>>,
      <<"U+016F", <<"U+016E">>>>, <<"U+0171", <<"U+0170">>>>,
      <<"U+0173", <<"U+0172">>>>, <<"U+0175", <<"U+0174">>>>,
      <<"U+0177", <<"U+0176">>>>, <<"U+017A", <<"U+0179">>>>,
      <<"U+017C", <<"U+017B">>>>, <<"U+017E", <<"U+017D">>>>,
      <<"U+017F", <<"S">>>>, <<"U+01F0", <<"J", "U+030C">>>>,
      <<"U+03BC", <<"U+039C">>>>, <<"U+1E96", <<"H", "U+0331">>>>,
      <<"U+1E97", <<"T", "U+0308">>>>, <<"U+1E98", <<"W", "U+030A">>>>,
      <<"U+1E99", <<"Y", "U+030A">>>>, <<"U+1E9A", <<"A", "U+02BE">>>>,
      <<"U+FB00", <<"F", "F">>>>, <<"U+FB01", <<"F", "I">>>>,
      <<"U+FB02", <<"F", "L">>>>, <<"U+FB03", <<"F", "F", "I">>>>,
      <<"U+FB04", <<"F", "F", "L">>>>, <<"U+FB05", <<"S", "T">>>>,
      <<"U+FB06", <<"S", "T">>>> >>

\* <<c, c.lower()>> for the characters outside ASCII that lower() changes
NonAsciiLower ==
    <<
      <<"U+00C0", <<"U+00E0">>>>, <<"U+00C1", <<"U+00E1">>>>,
      <<"U+00C2", <<"U+00E2">>>>, <<"U+00C3", <<"U+00E3">>>>,
      <<"U+00C4", <<"U+00E4">>>>, <<"U+00C5", <<"U+00E5">>>>,
      <<"U+00C6", <<"U+00E6">>>>, <<"U+00C7", <<"U+00E7">>>>,
      <<"U+00C8", <<"U+00E8">>>>, <<"U+00C9", <<"U+00E9">>>>,
      <<"U+00CA", <<"U+00EA">>>>, <<"U+00CB", <<"U+00EB">>>>,
      <<"U+00CC", <<"U+00EC">>>>, <<"U+00CD", <<"U+00ED">>>>,
      <<"U+00CE", <<"U+00EE">>>>, <<"U+00CF", <<"U+00EF">>>>,
      <<"U+00D0", <<"U+00F0">>>>, <<"U+00D1", <<"U+00F1">>>>,
      <<"U+00D2", <<"U+00F2">>>>, <<"U+00D3", <<"U+00F3">>>>,
      <<"U+00D4", <<"U+00F4">>>>, <<"U+00D5", <<"U+00F5">>>>,
      <<"U+00D6", <<"U+00F6">>>>, <<"U+00D8", <<"U+00F8">>>>,
      <<"U+00D9", <<"U+00F9">>>>, <<"U+00DA", <<"U+00FA">>>>,
      <<"U+00DB", <<"U+00FB">>>>, <<"U+00DC", <<"U+00FC">>>>,
      <<"U+00DD", <<"U+00FD">>>>, <<"U+00DE", <<"U+00FE">>>>,
      <<"U+0100", <<"U+0101">>>>, <<"U+0102", <<"U+0103">>>>,
      <<"U+0104", <<"U+0105">>>>, <<"U+0106", <<"U+0107">>>>,
      <<"U+0108", <<"U+0109">>>>, <<"U+010A", <<"U+010B">>>>,
      <<"U+010C", <<"U+010D">>>>, <<"U+010E", <<"U+010F">>>>,
      <<"U+0110", <<"U+0111">>>>, <<"U+0112", <<"U+0113">>>>,
      <<"U+0114", <<"U+0115">>>>, <<"U+0116", <<"U+0117">>>>,
      <<"U+0118", <<"U+0119">>>>, <<"U+011A", <<"U+011B">>>>,
      <<"U+011C", <<"U+011D">>>>, <<"U+011E", <<"U+011F">>>>,
      <<"U+0120", <<"U+0121">>>>, <<"U+0122", <<"U+0123">>>>,
      <<"U+0124", <<"U+0125">>>>, <<"U+0126", <<"U+0127">>>>,
      <<"U+0128", <<"U+0129">>>>, <<"U+012A", <<"U+012B">>>>,
      <<"U+012C", <<"U+012D">>>>, <<"U+012E", <<"U+012F">>>>,
      <<"U+0130", <<"i", "U+0307">>>>, <<"U+0132", <<"U+0133">>>>,
      <<"U+0134", <<"U+0135">>>>, <<"U+0136", <<"U+0137">>>>,
      <<"U+0139", <<"U+013A">>>>, <<"U+013B", <<"U+013C">>>>,
      <<"U+013D", <<"U+013E">>>>, <<"U+013F", <<"U+0140">>>>,
      <<"U+0141", <<"U+0142">>>>, <<"U+0143", <<"U+0144">>>>,
      <<"U+0145", <<"U+0146">>>>, <<"U+0147", <<"U+0148">>>>,
      <<"U+014A", <<"U+014B">>>>, <<"U+014C", <<"U+014D">>>>,
      <<"U+014E", <<"U+014F">>>>, <<"U+0150", <<"U+0151">>>>,
      <<"U+0152", <<"U+0153">>>>, <<"U+0154", <<"U+0155">>>>,
      <<"U+0156", <<"U+0157">>>>, <<"U+0158", <<"U+0159">>>>,
      <<"U+015A", <<"U+015B">>>>, <<"U+015C", <<"U+015D">>>>,
      <<"U+015E", <<"U+015F">>>>, <<"U+0160", <<"U+0161">>>>,
      <<"U+0162", <<"U+0163">>>>, <<"U+0164", <<"U+0165">>>>,
      <<"U+0166", <<"U+0167">>>>, <<"U+0168", <<"U+0169">>>>,
      <<"U+016A", <<"U+016B">>>>, <<"U+016C", <<"U+016D">>>>,
      <<"U+016E", <<"U+016F">>>>, <<"U+0170", <<"U+0171">>>>,
      <<"U+0172", <<"U+0173">>>>, <<"U+0174", <<"U+0175">>>>,
      <<"U+0176", <<"U+0177">>>>, <<"U+0178", <<"U+00FF">>>>,
      <<"U+0179", <<"U+017A">>>>, <<"U+017B", <<"U+017C">>>>,
      <<"U+017D", <<"U+017E">>>>, <<"U+039C", <<"U+03BC">>>>,
      <<"U+212A", <<"k">>>> >>

\* the decimal digits (category Nd) outside ASCII, one script a row, the
\* digit of value v at position v + 1
NonAsciiDigits ==
    <<
      <<"U+0660", "U+0661", "U+0662", "U+0663", "U+0664", "U+0665", "U+0666", "U+0667", "U+0668", "U+0669">>,
      <<"U+06F0", "U+06F1", "U+06F2", "U+06F3", "U+06F4", "U+06F5", "U+06F6", "U+06F7", "U+06F8", "U+06F9">>,
      <<"U+07C0", "U+07C1", "U+07C2", "U+07C3", "U+07C4", "U+07C5", "U+07C6", "U+07C7", "U+07C8", "U+07C9">>,
      <<"U+0966", "U+0967", "U+0968", "U+0969", "U+096A", "U+096B", "U+096C", "U+096D", "U+096E", "U+096F">>,
      <<"U+09E6", "U+09E7", "U+09E8", "U+09E9", "U+09EA", "U+09EB", "U+09EC", "U+09ED", "U+09EE", "U+09EF">>,
      <<"U+0A66", "U+0A67", "U+0A68", "U+0A69", "U+0A6A", "U+0A6B", "U+0A6C", "U+0A6D", "U+0A6E", "U+0A6F">>,
      <<"U+0AE6", "U+0AE7", "U+0AE8", "U+0AE9", "U+0AEA", "U+0AEB", "U+0AEC", "U+0AED", "U+0AEE", "U+0AEF">>,
      <<"U+0B66", "U+0B67", "U+0B68", "U+0B69", "U+0B6A", "U+0B6B", "U+0B6C", "U+0B6D", "U+0B6E", "U+0B6F">>,
      <<"U+0BE6", "U+0BE7", "U+0BE8", "U+0BE9", "U+0BEA", "U+0BEB", "U+0BEC", "U+0BED", "U+0BEE", "U+0BEF">>,
      <<"U+0C66", "U+0C67", "U+0C68", "U+0C69", "U+0C6A", "U+0C6B", "U+0C6C", "U+0C6D", "U+0C6E", "U+0C6F">>,
      <<"U+0CE6", "U+0CE7", "U+0CE8", "U+0CE9", "U+0CEA", "U+0CEB", "U+0CEC", "U+0CED", "U+0CEE", "U+0CEF">>,
      <<"U+0D66", "U+0D67", "U+0D68", "U+0D69", "U+0D6A", "U+0D6B", "U+0D6C", "U+0D6D", "U+0D6E", "U+0D6F">>,
      <<"U+0DE6", "U+0DE7", "U+0DE8", "U+0DE9", "U+0DEA", "U+0DEB", "U+0DEC", "U+0DED", "U+0DEE", "U+0DEF">>,
      <<"U+0E50", "U+0E51", "U+0E52", "U+0E53", "U+0E54", "U+0E55", "U+0E56", "U+0E57", "U+0E58", "U+0E59">>,
      <<"U+0ED0", "U+0ED1", "U+0ED2", "U+0ED3", "U+0ED4", "U+0ED5", "U+0ED6", "U+0ED7", "U+0ED8", "U+0ED9">>,
      <<"U+0F20", "U+0F21", "U+0F22", "U+0F23", "U+0F24", "U+0F25", "U+0F26", "U+0F27", "U+0F28", "U+0F29">>,
      <<"U+1040", "U+1041", "U+1042", "U+1043", "U+1044", "U+1045", "U+1046", "U+1047", "U+1048", "U+1049">>,
      <<"U+1090", "U+1091", "U+1092", "U+1093", "U+1094", "U+1095", "U+1096", "U+1097", "U+1098", "U+1099">>,
      <<"U+17E0", "U+17E1", "U+17E2", "U+17E3", "U+17E4", "U+17E5", "U+17E6", "U+17E7", "U+17E8", "U+17E9">>,
      <<"U+1810", "U+1811", "U+1812", "U+1813", "U+1814", "U+1815", "U+1816", "U+1817", "U+1818", "U+1819">>,
      <<"U+1946", "U+1947", "U+1948", "U+1949", "U+194A", "U+194B", "U+194C", "U+194D", "U+194E", "U+194F">>,
      <<"U+19D0", "U+19D1", "U+19D2", "U+19D3", "U+19D4", "U+19D5", "U+19D6", "U+19D7", "U+19D8", "U+19D9">>,
      <<"U+1A80", "U+1A81", "U+1A82", "U+1A83", "U+1A84", "U+1A85", "U+1A86", "U+1A87", "U+1A88", "U+1A89">>,
      <<"U+1A90", "U+1A91", "U+1A92", "U+1A93", "U+1A94", "U+1A95", "U+1A96", "U+1A97", "U+1A98", "U+1A99">>,
      <<"U+1B50", "U+1B51", "U+1B52", "U+1B53", "U+1B54", "U+1B55", "U+1B56", "U+1B57", "U+1B58", "U+1B59">>,
      <<"U+1BB0", "U+1BB1", "U+1BB2", "U+1BB3", "U+1BB4", "U+1BB5", "U+1BB6", "U+1BB7", "U+1BB8", "U+1BB9">>,
      <<"U+1C40", "U+1C41", "U+1C42", "U+1C43", "U+1C44", "U+1C45", "U+1C46", "U+1C47", "U+1C48", "U+1C49">>,
      <<"U+1C50", "U+1C51", "U+1C52", "U+1C53", "U+1C54", "U+1C55", "U+1C56", "U+1C57", "U+1C58", "U+1C59">>,
      <<"U+A620", "U+A621", "U+A622", "U+A623", "U+A624", "U+A625", "U+A626", "U+A627", "U+A628", "U+A629">>,
      <<"U+A8D0", "U+A8D1", "U+A8D2", "U+A8D3", "U+A8D4", "U+A8D5", "U+A8D6", "U+A8D7", "U+A8D8", "U+A8D9">>,
      <<"U+A900", "U+A901", "U+A902", "U+A903", "U+A904", "U+A905", "U+A906", "U+A907", "U+A908", "U+A909">>,
      <<"U+A9D0", "U+A9D1", "U+A9D2", "U+A9D3", "U+A9D4", "U+A9D5", "U+A9D6", "U+A9D7", "U+A9D8", "U+A9D9">>,
      <<"U+A9F0", "U+A9F1", "U+A9F2", "U+A9F3", "U+A9F4", "U+A9F5", "U+A9F6", "U+A9F7", "U+A9F8", "U+A9F9">>,
      <<"U+AA50", "U+AA51", "U+AA52", "U+AA53", "U+AA54", "U+AA55", "U+AA56", "U+AA57", "U+AA58", "U+AA59">>,
      <<"U+ABF0", "U+ABF1", "U+ABF2", "U+ABF3", "U+ABF4", "U+ABF5", "U+ABF6", "U+ABF7", "U+ABF8", "U+ABF9">>,
      <<"U+FF10", "U+FF11", "U+FF12", "U+FF13", "U+FF14", "U+FF15", "U+FF16", "U+FF17", "U+FF18", "U+FF19">>,
      <<"U+104A0", "U+104A1", "U+104A2", "U+104A3", "U+104A4", "U+104A5", "U+104A6", "U+104A7", "U+104A8", "U+104A9">>,
      <<"U+10D30", "U+10D31", "U+10D32", "U+10D33", "U+10D34", "U+10D35", "U+10D36", "U+10D37", "U+10D38", "U+10D39">>,
      <<"U+11066", "U+11067", "U+11068", "U+11069", "U+1106A", "U+1106B", "U+1106C", "U+1106D", "U+1106E", "U+1106F">>,
      <<"U+110F0", "U+110F1", "U+110F2", "U+110F3", "U+110F4", "U+110F5", "U+110F6", "U+110F7", "U+110F8", "U+110F9">>,
      <<"U+11136", "U+11137", "U+11138", "U+11139", "U+1113A", "U+1113B", "U+1113C", "U+1113D", "U+1113E", "U+1113F">>,
      <<"U+111D0", "U+111D1", "U+111D2", "U+111D3", "U+111D4", "U+111D5", "U+111D6", "U+111D7", "U+111D8", "U+111D9">>,
      <<"U+112F0", "U+112F1", "U+112F2", "U+112F3", "U+112F4", "U+112F5", "U+112F6", "U+112F7", "U+112F8", "U+112F9">>,
      <<"U+11450", "U+11451", "U+11452", "U+11453", "U+11454", "U+11455", "U+11456", "U+11457", "U+11458", "U+11459">>,
      <<"U+114D0", "U+114D1", "U+114D2", "U+114D3", "U+114D4", "U+114D5", "U+114D6", "U+114D7", "U+114D8", "U+114D9">>,
      <<"U+11650", "U+11651", "U+11652", "U+11653", "U+11654", "U+11655", "U+11656", "U+11657", "U+11658", "U+11659">>,
      <<"U+116C0", "U+116C1", "U+116C2", "U+116C3", "U+116C4", "U+116C5", "U+116C6", "U+116C7", "U+116C8", "U+116C9">>,
      <<"U+11730", "U+11731", "U+11732", "U+11733", "U+11734", "U+11735", "U+11736", "U+11737", "U+11738", "U+11739">>,
      <<"U+118E0", "U+118E1", "U+118E2", "U+118E3", "U+118E4", "U+118E5", "U+118E6", "U+118E7", "U+118E8", "U+118E9">>,
      <<"U+11950", "U+11951", "U+11952", "U+11953", "U+11954", "U+11955", "U+11956", "U+11957", "U+11958", "U+11959">>,
      <<"U+11C50", "U+11C51", "U+11C52", "U+11C53", "U+11C54", "U+11C55", "U+11C56", "U+11C57", "U+11C58", "U+11C59">>,
      <<"U+11D50", "U+11D51", "U+11D52", "U+11D53", "U+11D54", "U+11D55", "U+11D56", "U+11D57", "U+11D58", "U+11D59">>,
      <<"U+11DA0", "U+11DA1", "U+11DA2", "U+11DA3", "U+11DA4", "U+11DA5", "U+11DA6", "U+11DA7", "U+11DA8", "U+11DA9">>,
      <<"U+16A60", "U+16A61", "U+16A62", "U+16A63", "U+16A64", "U+16A65", "U+16A66", "U+16A67", "U+16A68", "U+16A69">>,
      <<"U+16AC0", "U+16AC1", "U+16AC2", "U+16AC3", "U+16AC4", "U+16AC5", "U+16AC6", "U+16AC7", "U+16AC8", "U+16AC9">>,
      <<"U+16B50", "U+16B51", "U+16B52", "U+16B53", "U+16B54", "U+16B55", "U+16B56", "U+16B57", "U+16B58", "U+16B59">>,
      <<"U+1D7CE", "U+1D7CF", "U+1D7D0", "U+1D7D1", "U+1D7D2", "U+1D7D3", "U+1D7D4", "U+1D7D5", "U+1D7D6", "U+1D7D7">>,
      <<"U+1D7D8", "U+1D7D9", "U+1D7DA", "U+1D7DB", "U+1D7DC", "U+1D7DD", "U+1D7DE", "U+1D7DF", "U+1D7E0", "U+1D7E1">>,
      <<"U+1D7E2", "U+1D7E3", "U+1D7E4", "U+1D7E5", "U+1D7E6", "U+1D7E7", "U+1D7E8", "U+1D7E9", "U+1D7EA", "U+1D7EB">>,
      <<"U+1D7EC", "U+1D7ED", "U+1D7EE", "U+1D7EF", "U+1D7F0", "U+1D7F1", "U+1D7F2", "U+1D7F3", "U+1D7F4", "U+1D7F5">>,
      <<"U+1D7F6", "U+1D7F7", "U+1D7F8", "U+1D7F9", "U+1D7FA", "U+1D7FB", "U+1D7FC", "U+1D7FD", "U+1D7FE", "U+1D7FF">>,
      <<"U+1E140", "U+1E141", "U+1E142", "U+1E143", "U+1E144", "U+1E145", "U+1E146", "U+1E147", "U+1E148", "U+1E149">>,
      <<"U+1E2F0", "U+1E2F1", "U+1E2F2", "U+1E2F3", "U+1E2F4", "U+1E2F5", "U+1E2F6", "U+1E2F7", "U+1E2F8", "U+1E2F9">>,
      <<"U+1E950", "U+1E951", "U+1E952", "U+1E953", "U+1E954", "U+1E955", "U+1E956", "U+1E957", "U+1E958", "U+1E959">>,
      <<"U+1FBF0", "U+1FBF1", "U+1FBF2", "U+1FBF3", "U+1FBF4", "U+1FBF5", "U+1FBF6", "U+1FBF7", "U+1FBF8", "U+1FBF9">> >>

\* the characters outside ASCII that are letters (str.isalnum(), not digits)
NonAsciiLetters ==
    {
      "U+00AA", "U+00B2", "U+00B3", "U+00B5", "U+00B9", "U+00BA", "U+00BC",
      "U+00BD", "U+00BE", "U+00C0", "U+00C1", "U+00C2", "U+00C3", "U+00C4",
      "U+00C5", "U+00C6", "U+00C7", "U+00C8", "U+00C9", "U+00CA", "U+00CB",
      "U+00CC", "U+00CD", "U+00CE", "U+00CF", "U+00D0", "U+00D1", "U+00D2",
      "U+00D3", "U+00D4", "U+00D5", "U+00D6", "U+00D8", "U+00D9", "U+00DA",
      "U+00DB", "U+00DC", "U+00DD", "U+00DE", "U+00DF", "U+00E0", "U+00E1",
      "U+00E2", "U+00E3", "U+00E4", "U+00E5", "U+00E6", "U+00E7", "U+00E8",
      "U+00E9", "U+00EA", "U+00EB", "U+00EC", "U+00ED", "U+00EE", "U+00EF",
      "U+00F0", "U+00F1", "U+00F2", "U+00F3", "U+00F4", "U+00F5", "U+00F6",
      "U+00F8", "U+00F9", "U+00FA", "U+00FB", "U+00FC", "U+00FD", "U+00FE",
      "U+00FF", "U+0100", "U+0101", "U+0102", "U+0103", "U+0104", "U+0105",
      "U+0106", "U+0107", "U+0108", "U+0109", "U+010A", "U+010B", "U+010C",
      "U+010D", "U+010E", "U+010F", "U+0110", "U+0111", "U+0112", "U+0113",
      "U+0114", "U+0115", "U+0116", "U+0117", "U+0118", "U+0119", "U+011A",
      "U+011B", "U+011C", "U+011D", "U+011E", "U+011F", "U+0120", "U+0121",
      "U+0122", "U+0123", "U+0124", "U+0125", "U+0126", "U+0127", "U+0128",
      "U+0129", "U+012A", "U+012B", "U+012C", "U+012D", "U+012E", "U+012F",
      "U+0130", "U+0131", "U+0132", "U+0133", "U+0134", "U+0135", "U+0136",
      "U+0137", "U+0138", "U+0139", "U+013A", "U+013B", "U+013C", "U+013D",
      "U+013E", "U+013F", "U+0140", "U+0141", "U+0142", "U+0143", "U+0144",
      "U+0145", "U+0146", "U+0147", "U+0148", "U+0149", "U+014A", "U+014B",
      "U+014C", "U+014D", "U+014E", "U+014F", "U+0150", "U+0151", "U+0152",
      "U+0153", "U+0154", "U+0155", "U+0156", "U+0157", "U+0158", "U+0159",
      "U+015A", "U+015B", "U+015C", "U+015D", "U+015E", "U+015F", "U+0160",
      "U+0161", "U+0162", "U+0163", "U+0164", "U+0165", "U+0166", "U+0167",
      "U+0168", "U+0169", "U+016A", "U+016B", "U+016C", "U+016D", "U+016E",
      "U+016F", "U+0170", "U+0171", "U+0172", "U+0173", "U+0174", "U+0175",
      "U+0176", "U+0177", "U+0178", "U+0179", "U+017A", "U+017B", "U+017C",
      "U+017D", "U+017E", "U+017F", "U+01F0", "U+02BC", "U+02BE", "U+039C",
      "U+03BC", "U+1E96", "U+1E97", "U+1E98", "U+1E99", "U+1E9A", "U+212A",
      "U+FB00", "U+FB01", "U+FB02", "U+FB03", "U+FB04", "U+FB05", "U+FB06" }

\* the white space int() strips from both ends of its argument
IntSpaces ==
    {
      "\t", "\n", "U+000B", "\f", "\r", " ", "U+0085", "U+00A0", "U+1680",
      "U+2000", "U+2001", "U+2002", "U+2003", "U+2004", "U+2005", "U+2006",
      "U+2007", "U+2008", "U+2009", "U+200A", "U+2028", "U+2029", "U+202F",
      "U+205F", "U+3000" }

IsAscii(c) == c \in AsciiChars

\* table is a sequence of pairs <<c, v>>
HasPair(table, c) == \E i \in 1..Len(table) : table[i][1] = c
PairOf(table, c) == table[CHOOSE i \in 1..Len(table) : table[i][1] = c][2]

IsAsciiLower(c) == \E i \in 1..26 : LowerLetters[i] = c
IsAsciiUpper(c) == \E i \in 1..26 : UpperLetters[i] = c
IsAsciiDigit(c) == \E i \in 1..10 : DigitChars[i] = c

\* c.upper() != c
IsLowerLetter(c) ==
    IF IsAscii(c) THEN IsAsciiLower(c) ELSE HasPair(NonAsciiUpper, c)
\* c.lower() != c
IsUpperLetter(c) ==
    IF IsAscii(c) THEN IsAsciiUpper(c) ELSE HasPair(NonAsciiLower, c)

NonAsciiDigitSet ==
    UNION { {NonAsciiDigits[r][i] : i \in 1..10} : r \in 1..Len(NonAsciiDigits) }

\* a decimal digit: what int() takes for a digit and \d matches
IsDigit(c) == IF IsAscii(c) THEN IsAsciiDigit(c) ELSE c \in NonAsciiDigitSet
DigitVal(c) ==
    IF IsAscii(c)
    THEN (CHOOSE i \in 1..10 : DigitChars[i] = c) - 1
    ELSE (CHOOSE i \in 1..10 :
            \E r \in 1..Len(NonAsciiDigits) : NonAsciiDigits[r][i] = c) - 1

\* c.lower() and c.upper(), strings of one character or more
LowerChar(c) ==
    IF IsAscii(c)
    THEN IF IsAsciiUpper(c)
         THEN <<LowerLetters[CHOOSE i \in 1..26 : UpperLetters[i] = c]>>
         ELSE <<c>>
    ELSE IF HasPair(NonAsciiLower, c) THEN PairOf(NonAsciiLower, c) ELSE <<c>>
UpperChar(c) ==
    IF IsAscii(c)
    THEN IF IsAsciiLower(c)
         THEN <<UpperLetters[CHOOSE i \in 1..26 : LowerLetters[i] = c]>>
         ELSE <<c>>
    ELSE IF HasPair(NonAsciiUpper, c) THEN PairOf(NonAsciiUpper, c) ELSE <<c>>

\* a lower() that leaves the string as it is
Lower_Mut(s) == s

\* str.lower()
RECURSIVE Lower(_)
Lower(s) == IF Len(s) = 0 THEN <<>> ELSE LowerChar(Head(s)) \o Lower(Tail(s))
\* str.upper()
RECURSIVE Upper(_)
Upper(s) == IF Len(s) = 0 THEN <<>> ELSE UpperChar(Head(s)) \o Upper(Tail(s))

\* truth value of a str or an int operand of `or`
TruthyStr(s) == Len(s) > 0
TruthyInt(n) == n # 0

\* str(True), the default handed to os.environ.get for the boolean fields
StrOfBool(b) == IF b THEN <<"T","r","u","e">> ELSE <<"F","a","l","s","e">>

(***************************************************************************)
(* int(str): white space stripped from both ends, an optional sign, then   *)
(* decimal digits of any script with single underscores allowed between    *)
(* digits; anything else raises ValueError.  The literals of the model     *)
(* stay below 2^31.                                                        *)
(***************************************************************************)
IsSpace(c) == c \in IntSpaces

RECURSIVE LStrip(_)
LStrip(s) == IF Len(s) > 0 /\ IsSpace(s[1]) THEN LStrip(Tail(s)) ELSE s
RECURSIVE RStrip(_)
RStrip(s) == IF Len(s) > 0 /\ IsSpace(s[Len(s)])
             THEN RStrip(SubSeq(s, 1, Len(s) - 1)) ELSE s
Strip(s) == RStrip(LStrip(s))

IntBodyOk(b) ==
    /\ Len(b) > 0
    /\ IsDigit(b[1])
    /\ IsDigit(b[Len(b)])
    /\ \A i \in 1..Len(b) :
          \/ IsDigit(b[i])
          \/ b[i] = "_" /\ i > 1 /\ i < Len(b) /\ IsDigit(b[i-1]) /\ IsDigit(b[i+1])

RECURSIVE IntBodyVal(_, _)
IntBodyVal(b, acc) ==
    IF Len(b) = 0 THEN acc
    ELSE IF b[1] = "_" THEN IntBodyVal(Tail(b), acc)
    ELSE IntBodyVal(Tail(b), 10 * acc + DigitVal(b[1]))

\* [ok |-> FALSE] stands for the ValueError int() raises
PyIntOfStr(s) ==
    LET t == Strip(s)
        signed == Len(t) > 0 /\ t[1] \in {"+", "-"}
        body == IF signed THEN Tail(t) ELSE t
        mag == IntBodyVal(body, 0)
    IN IF IntBodyOk(body)
       THEN [ok |-> TRUE, val |-> IF signed /\ t[1] = "-" THEN 0 - mag ELSE mag]
       ELSE [ok |-> FALSE, val |-> 0]

(***************************************************************************)
(* Default configuration (module constants)                                *)
(***************************************************************************)
\* Params.log_level, Params.log_dir_name and Params.log_filename come from
\* the constants provider the module imports; the values below stand for it.
DEFAULT_LOG_LEVEL == <<"I","N","F","O">>
DEFAULT_LOG_FORMAT ==
    <<"%","(","a","s","c","t","i","m","e",")","s"," ","-"," ",
      "%","(","s","e","r","v","i","c","e",")","s"," ","-"," ",
      "%","(","l","e","v","e","l","n","a","m","e",")","s"," ","-"," ",
      "%","(","m","e","s","s","a","g","e",")","s">>
DEFAULT_LOG_DIR == <<"l","o","g","s">>
DEFAULT_LOG_FILENAME == <<"a","p","p",".","l","o","g">>
DEFAULT_LOG_MAX_BYTES == 10 * 1024 * 1024
DEFAULT_LOG_BACKUP_COUNT == 5
DEFAULT_LOG_TO_CONSOLE == TRUE
DEFAULT_LOG_TO_FILE == TRUE

(***************************************************************************)
(* Configuration resolution, one operator per local variable of            *)
(* setup_logging.  in.args maps a parameter name to its optional value,    *)
(* in.env maps an environment variable name to its optional string.        *)
(***************************************************************************)
\* os.environ.get(name, default) with a string default
EnvGet(env, name, default) == IF IsNone(env[name]) THEN default ELSE Val(env[name])

\* level or os.environ.get("LOG_LEVEL", DEFAULT_LOG_LEVEL)
log_level_str(in) ==
    IF ~IsNone(in.args.level) /\ TruthyStr(Val(in.args.level))
    THEN Val(in.args.level)
    ELSE EnvGet(in.env, "LOG_LEVEL", DEFAULT_LOG_LEVEL)

\* log_format or os.environ.get("LOG_FORMAT", DEFAULT_LOG_FORMAT)
log_format_str(in) ==
    IF ~IsNone(in.args.log_format) /\ TruthyStr(Val(in.args.log_format))
    THEN Val(in.args.log_format)
    ELSE EnvGet(in.env, "LOG_FORMAT", DEFAULT_LOG_FORMAT)

\* x if x is not None else (os.environ.get(NAME, str(DEFAULT)).lower() == 'true')
EnvFlag(env, name, default) ==
    Lower(EnvGet(env, name, StrOfBool(default))) = <<"t","r","u","e">>

should_log_to_console(in) ==
    IF ~IsNone(in.args.log_to_console)
    THEN Val(in.args.log_to_console)
    ELSE EnvFlag(in.env, "LOG_TO_CONSOLE", DEFAULT_LOG_TO_CONSOLE)

should_log_to_file(in) ==
    IF ~IsNone(in.args.log_to_file)
    THEN Val(in.args.log_to_file)
    ELSE EnvFlag(in.env, "LOG_TO_FILE", DEFAULT_LOG_TO_FILE)

\* log_dir or os.environ.get("LOG_DIR", DEFAULT_LOG_DIR)
log_directory(in) ==
    IF ~IsNone(in.args.log_dir) /\ TruthyStr(Val(in.args.log_dir))
    THEN Val(in.args.log_dir)
    ELSE EnvGet(in.env, "LOG_DIR", DEFAULT_LOG_DIR)

\* log_filename or os.environ.get("LOG_FILENAME", DEFAULT_LOG_FILENAME)
log_file_name(in) ==
    IF ~IsNone(in.args.log_filename) /\ TruthyStr(Val(in.args.log_filename))
    THEN Val(in.args.log_filename)
    ELSE EnvGet(in.env, "LOG_FILENAME", DEFAULT_LOG_FILENAME)

\* int(os.environ.get(NAME, default)): int of an int default is that int
EnvInt(env, name, default) ==
    IF IsNone(env[name]) THEN [ok |-> TRUE, val |-> default]
    ELSE PyIntOfStr(Val(env[name]))

\* max_bytes or int(os.environ.get("LOG_MAX_BYTES", DEFAULT_LOG_MAX_BYTES))
max_log_bytes(in) ==
    IF ~IsNone(in.args.max_bytes) /\ TruthyInt(Val(in.args.max_bytes))
    THEN [ok |-> TRUE, val |-> Val(in.args.max_bytes)]
    ELSE EnvInt(in.env, "LOG_MAX_BYTES", DEFAULT_LOG_MAX_BYTES)

\* backup_count or int(os.environ.get("LOG_BACKUP_COUNT", DEFAULT_LOG_BACKUP_COUNT))
backup_log_count(in) ==
    IF ~IsNone(in.args.backup_count) /\ TruthyInt(Val(in.args.backup_count))
    THEN [ok |-> TRUE, val |-> Val(in.args.backup_count)]
    ELSE EnvInt(in.env, "LOG_BACKUP_COUNT", DEFAULT_LOG_BACKUP_COUNT)

\* The eight assignments in order.  raised_at is the source line whose
\* evaluation raised (0 when none did); an integer field that was not
\* reached, or whose parse raised, is None.
ResolveConfig(in) ==
    LET mb == max_log_bytes(in)
        bc == backup_log_count(in)
    IN [log_level_str |-> log_level_str(in),
        log_format_str |-> log_format_str(in),
        should_log_to_console |-> should_log_to_console(in),
        should_log_to_file |-> should_log_to_file(in),
        log_directory |-> log_directory(in),
        log_file_name |-> log_file_name(in),
        max_log_bytes |-> IF mb.ok THEN Some(mb.val) ELSE None,
        backup_log_count |-> IF mb.ok /\ bc.ok THEN Some(bc.val) ELSE None,
        raised_at |-> IF ~mb.ok THEN 73 ELSE IF ~bc.ok THEN 74 ELSE 0]

(***************************************************************************)
(* Severity levels of the logging library                                  *)
(***************************************************************************)
NOTSET == 0
DEBUG == 10
INFO == 20
WARNING == 30
ERROR == 40
CRITICAL == 50

\* The upper-case attributes of the logging module that are severity levels.
LevelNames ==
    { <<"C","R","I","T","I","C","A","L">>, <<"F","A","T","A","L">>,
      <<"E","R","R","O","R">>, <<"W","A","R","N","I","N","G">>,
      <<"W","A","R","N">>, <<"I","N","F","O">>, <<"D","E","B","U","G">>,
      <<"N","O","T","S","E","T">> }

LevelOfName(n) ==
    IF n \in {<<"C","R","I","T","I","C","A","L">>, <<"F","A","T","A","L">>} THEN CRITICAL
    ELSE IF n = <<"E","R","R","O","R">> THEN ERROR
    ELSE IF n \in {<<"W","A","R","N","I","N","G">>, <<"W","A","R","N">>} THEN WARNING
    ELSE IF n = <<"I","N","F","O">> THEN INFO
    ELSE IF n = <<"D","E","B","U","G">> THEN DEBUG
    ELSE NOTSET

\* The other attributes of the logging module whose names are their own
\* upper-casing are BASIC_FORMAT (a str) and _STYLES (a dict).

\* logging.BASIC_FORMAT, the format of the handler basicConfig() creates
BASIC_FORMAT ==
    <<"%","(","l","e","v","e","l","n","a","m","e",")","s",":",
      "%","(","n","a","m","e",")","s",":",
      "%","(","m","e","s","s","a","g","e",")","s">>

\* logging._STYLES: style character, style class, default format
STYLES ==
    << <<"%", "PercentStyle", BASIC_FORMAT>>,
       <<"{", "StrFormatStyle",
         <<"{","l","e","v","e","l","n","a","m","e","}",":",
           "{","n","a","m","e","}",":",
           "{","m","e","s","s","a","g","e","}">> >>,
       <<"$", "StringTemplateStyle",
         <<"$","{","l","e","v","e","l","n","a","m","e","}",":",
           "$","{","n","a","m","e","}",":",
           "$","{","m","e","s","s","a","g","e","}">> >> >>

\* getattr(logging, log_level_str.upper(), logging.INFO): the attribute when
\* the module has one of that name, logging.INFO otherwise.  type is the
\* type of the value found, val the value.
numeric_level(s) ==
    LET n == Upper(s)
    IN IF n \in LevelNames THEN [type |-> "int", val |-> LevelOfName(n)]
       ELSE IF n = <<"B","A","S","I","C","_","F","O","R","M","A","T">>
       THEN [type |-> "str", val |-> BASIC_FORMAT]
       ELSE IF n = <<"_","S","T","Y","L","E","S">>
       THEN [type |-> "dict", val |-> STYLES]
       ELSE [type |-> "int", val |-> INFO]

\* Logger.setLevel(v) accepts an integer; the str and dict attributes above
\* are no level and make it raise.
SetLevelRaises(s) == numeric_level(s).type # "int"

\* what Logger.setLevel raises for the value v that is no level: ValueError
\* "Unknown level: %r" for a str that names none, TypeError "Level not an
\* integer or a valid string: %r" for any other value; value is what the
\* message quotes
SetLevelError(v) ==
    [exc |-> IF v.type = "str" THEN "ValueError" ELSE "TypeError",
     value |-> v.val]

(***************************************************************************)
(* logging.Formatter(fmt): an empty fmt is replaced by "%(message)s"; the  *)
(* result must contain a match of                                          *)
(*   %\(\w+\)[#0+ -]*(\*|\d+)?(\.(\*|\d+))?[diouxefgcrsa%]  (ignoring case) *)
(* or the constructor raises ValueError.                                   *)
(***************************************************************************)
\* \w: a letter or a digit of any script, or "_"
IsWordChar(c) ==
    IF IsAscii(c)
    THEN IsAsciiLower(c) \/ IsAsciiUpper(c) \/ IsAsciiDigit(c) \/ c = "_"
    ELSE c \in NonAsciiLetters \/ c \in NonAsciiDigitSet
IsFlagChar(c) == c \in {"#", "0", "+", " ", "-"}
ConvChars == {"d","i","o","u","x","e","f","g","c","r","s","a","%"}
\* [diouxefgcrsa%] ignoring case: the class, its upper-case letters, and the
\* three characters outside ASCII that fold to "i" and "s"
IsConvChar(c) ==
    \/ c \in ConvChars
    \/ IsAsciiUpper(c) /\ LowerChar(c)[1] \in ConvChars
    \/ c \in {"U+0130", "U+0131", "U+017F"}

AllDigits(s, a, b) == \A k \in a..b : IsDigit(s[k])
AllWordChars(s, a, b) == \A k \in a..b : IsWordChar(s[k])
AllFlagChars(s, a, b) == \A k \in a..b : IsFlagChar(s[k])

\* s[a..b-1] is empty, "*", or one or more digits
IsCount(s, a, b) ==
    \/ a = b
    \/ b = a + 1 /\ s[a] = "*"
    \/ b > a /\ AllDigits(s, a, b - 1)

FormatFieldAt(s, i) ==
    /\ s[i] = "%"
    /\ i + 1 <= Len(s) /\ s[i+1] = "("
    /\ \E j \in (i+3)..Len(s) :
          /\ s[j] = ")"
          /\ AllWordChars(s, i + 2, j - 1)
          /\ \E a \in (j+1)..Len(s) :
                /\ AllFlagChars(s, j + 1, a - 1)
                /\ \E b \in a..Len(s) :
                      /\ IsCount(s, a, b)
                      /\ \E c \in b..Len(s) :
                            /\ \/ c = b
                               \/ c > b /\ s[b] = "." /\ c > b + 1 /\ IsCount(s, b + 1, c)
                            /\ IsConvChar(s[c])

FormatterFmt(s) == IF Len(s) = 0 THEN <<"%","(","m","e","s","s","a","g","e",")","s">> ELSE s

FormatterRaises(s) ==
    LET f == FormatterFmt(s)
    IN ~ \E i \in 1..Len(f) : FormatFieldAt(f, i)

(***************************************************************************)
(* Formatter.format(record): fmt % record.__dict__.  The attributes of a   *)
(* LogRecord by the type of their value; service is there once a           *)
(* ServiceNameFilter has stamped the record, message and asctime are set   *)
(* by format() itself before the % (asctime whenever fmt holds            *)
(* "%(asctime)", hence whenever it is looked up).  The process id is taken *)
(* to be a valid code point for %c, the thread id is not, and every string *)
(* value (the names of the logging and of the calling module, the service  *)
(* name) to be longer than one character, so that %c refuses it.           *)
(***************************************************************************)
StrFields ==
    {
      <<"n","a","m","e">>, <<"m","s","g">>,
      <<"l","e","v","e","l","n","a","m","e">>,
      <<"p","a","t","h","n","a","m","e">>,
      <<"f","i","l","e","n","a","m","e">>, <<"m","o","d","u","l","e">>,
      <<"f","u","n","c","N","a","m","e">>,
      <<"t","h","r","e","a","d","N","a","m","e">>,
      <<"p","r","o","c","e","s","s","N","a","m","e">>,
      <<"m","e","s","s","a","g","e">>, <<"a","s","c","t","i","m","e">> }
IntFields == { <<"l","e","v","e","l","n","o">>, <<"l","i","n","e","n","o">>, <<"p","r","o","c","e","s","s">> }
BigIntFields == { <<"t","h","r","e","a","d">> }
FloatFields ==
    { <<"c","r","e","a","t","e","d">>, <<"m","s","e","c","s">>, <<"r","e","l","a","t","i","v","e","C","r","e","a","t","e","d">> }
\* a tuple or None
OtherFields ==
    { <<"a","r","g","s">>, <<"e","x","c","_","i","n","f","o">>,
      <<"e","x","c","_","t","e","x","t">>, <<"s","t","a","c","k","_","i","n","f","o">> }

FieldType(key, has_service) ==
    IF key \in StrFields THEN "str"
    ELSE IF key \in IntFields THEN "int"
    ELSE IF key \in BigIntFields THEN "bigint"
    ELSE IF key \in FloatFields THEN "float"
    ELSE IF key \in OtherFields THEN "other"
    ELSE IF key = <<"s","e","r","v","i","c","e">> /\ has_service THEN "str"
    ELSE "missing"

\* the conversion ch accepts a value of type ty ("dict" is the whole mapping,
\* what a specifier without a key gets)
ConvTakes(ch, ty) ==
    IF ch \in {"s", "r", "a"} THEN TRUE
    ELSE IF ch \in {"d", "i", "u", "e", "E", "f", "F", "g", "G"}
    THEN ty \in {"int", "bigint", "float"}
    ELSE IF ch \in {"o", "x", "X"} THEN ty \in {"int", "bigint"}
    ELSE IF ch = "c" THEN ty = "int"
    ELSE FALSE

\* the index after the ")" that closes a key, pcount parentheses being open
\* at s[i]; 0 when the string ends first
RECURSIVE KeyEnd(_, _, _)
KeyEnd(s, i, pcount) ==
    IF pcount = 0 THEN i
    ELSE IF i > Len(s) THEN 0
    ELSE IF s[i] = ")" THEN KeyEnd(s, i + 1, pcount - 1)
    ELSE IF s[i] = "(" THEN KeyEnd(s, i + 1, pcount + 1)
    ELSE KeyEnd(s, i + 1, pcount)

RECURSIVE SkipFlags(_, _)
SkipFlags(s, i) ==
    IF i <= Len(s) /\ s[i] \in {"-", "+", " ", "#", "0"}
    THEN SkipFlags(s, i + 1) ELSE i

RECURSIVE SkipDigits(_, _)
SkipDigits(s, i) ==
    IF i <= Len(s) /\ IsAsciiDigit(s[i]) THEN SkipDigits(s, i + 1) ELSE i

\* A width or a precision is read as a C integer: the digits d without
\* their leading zeros, and d <= lim for two such numerals.  A width above
\* PY_SSIZE_T_MAX and a precision above INT_MAX raise ValueError ("width
\* too big", "precision too big") as soon as they are read.
RECURSIVE Significant(_)
Significant(d) ==
    IF Len(d) > 0 /\ Head(d) = "0" THEN Significant(Tail(d)) ELSE d

DigitsLeq(d, lim) ==
    \/ Len(d) < Len(lim)
    \/ /\ Len(d) = Len(lim)
       /\ \/ d = lim
          \/ \E k \in 1..Len(d) :
               /\ \A j \in 1..(k - 1) : d[j] = lim[j]
               /\ DigitVal(d[k]) < DigitVal(lim[k])

PY_SSIZE_T_MAX ==
    <<"9","2","2","3","3","7","2","0","3","6","8","5","4","7","7","5","8","0","7">>
INT_MAX == <<"2","1","4","7","4","8","3","6","4","7">>
\* the largest precision of an integer conversion: INT_MAX - 3
INT_PREC_MAX == <<"2","1","4","7","4","8","3","6","4","4">>

\* The three outcomes of rendering: "renders", "raises", and "memory" when
\* the result needs a buffer so large that getting it depends on the
\* machine (MemoryError or not).  A count of at most SureDigits digits is
\* taken to fit always, one of NeverDigits digits or more is beyond any
\* address space.
SureDigits == 6
NeverDigits == 18
Allocates(d) ==
    IF Len(d) <= SureDigits THEN "renders"
    ELSE IF Len(d) >= NeverDigits THEN "raises"
    ELSE "memory"

Worse(a, b) ==
    IF "raises" \in {a, b} THEN "raises"
    ELSE IF "memory" \in {a, b} THEN "memory"
    ELSE "renders"

\* what the precision p costs the conversion ch: an integer conversion
\* writes p digits and refuses more than INT_MAX - 3 (OverflowError), the
\* float conversions work in a buffer of p digits (but %e for p = INT_MAX,
\* which the float formatter takes for no precision); the other conversions
\* need no more than the value has
PrecisionCost(ch, p) ==
    IF ch \in {"d", "i", "u", "o", "x", "X"}
    THEN IF DigitsLeq(p, INT_PREC_MAX) THEN Allocates(p) ELSE "raises"
    ELSE IF ch \in {"f", "F", "g", "G"} THEN Allocates(p)
    ELSE IF ch \in {"e", "E"} THEN IF p = INT_MAX THEN "renders" ELSE Allocates(p)
    ELSE "renders"

\* One conversion specifier, s[i] being the character after its "%":
\* (key) flags width .precision length conversion, one operator a part.  ty
\* is the type of the value the conversion gets, st the outcome of the
\* parts read so far.  The result is [st, next]: the outcome of the
\* specifier, and the index after it.

\* the conversion character at s[l], p being the precision
ParseConv(s, l, ty, st, p) ==
    [st |-> IF l <= Len(s) /\ ConvTakes(s[l], ty)
            THEN Worse(st, PrecisionCost(s[l], p))
            ELSE "raises",
     next |-> l + 1]

\* at most one length modifier at s[q]
ParseLength(s, q, ty, st, p) ==
    ParseConv(s, IF q <= Len(s) /\ s[q] \in {"h", "l", "L"} THEN q + 1 ELSE q,
              ty, st, p)

\* the precision p read, s[q] being the character after its digits
PrecisionRead(s, q, ty, st, p) ==
    ParseLength(s, q, ty, IF DigitsLeq(p, INT_MAX) THEN st ELSE "raises",
                p)

\* "." and ASCII digits or "*" at s[w]; a "*" takes the value the conversion
\* needs, so a specifier with one never renders
ParsePrecision(s, w, ty, st) ==
    IF w <= Len(s) /\ s[w] = "."
    THEN IF w + 1 <= Len(s) /\ s[w + 1] = "*"
         THEN ParseLength(s, w + 2, ty, "raises", <<>>)
         ELSE PrecisionRead(s, SkipDigits(s, w + 1), ty, st,
                  Significant(SubSeq(s, w + 1, SkipDigits(s, w + 1) - 1)))
    ELSE ParseLength(s, w, ty, st, <<>>)

\* the width d read, s[w] being the character after its digits: the result
\* is padded to d characters
WidthRead(s, w, ty, st, d) ==
    ParsePrecision(s, w, ty,
                   IF DigitsLeq(d, PY_SSIZE_T_MAX)
                   THEN Worse(st, Allocates(d)) ELSE "raises")

\* ASCII digits or "*" at s[f]
ParseWidth(s, f, ty, st) ==
    IF f <= Len(s) /\ s[f] = "*"
    THEN ParsePrecision(s, f + 1, ty, "raises")
    ELSE WidthRead(s, SkipDigits(s, f), ty, st,
                   SubSeq(s, f, SkipDigits(s, f) - 1))

ParseFlags(s, k, ty, st) == ParseWidth(s, SkipFlags(s, k), ty, st)

\* the key s[i+1 .. e-2] looked up in the record; e = 0: it never closes
ParseKeyed(s, i, e, has_service) ==
    IF e = 0 THEN [st |-> "raises", next |-> Len(s) + 1]
    ELSE \* a missing key raises KeyError
         LET ty == FieldType(SubSeq(s, i + 1, e - 2), has_service)
         IN ParseFlags(s, e, ty, IF ty = "missing" THEN "raises" ELSE "renders")

\* avail: the mapping itself, which a specifier without a key takes, has not
\* been taken yet
ParseSpec(s, i, has_service, avail) ==
    IF i <= Len(s) /\ s[i] = "("
    THEN ParseKeyed(s, i, KeyEnd(s, i + 1, 1), has_service)
    ELSE ParseFlags(s, i, "dict", IF avail THEN "renders" ELSE "raises")

\* the outcome of fmt % record.__dict__ from position i on, st being the
\* outcome of the specifiers before i
RECURSIVE RenderingFrom(_, _, _, _, _)
RenderingAfter(s, r, has_service, st) ==
    IF r.st = "raises" THEN "raises"
    ELSE RenderingFrom(s, r.next, has_service, FALSE, Worse(st, r.st))

RenderingFrom(s, i, has_service, avail, st) ==
    IF i > Len(s) THEN st
    ELSE IF s[i] # "%" THEN RenderingFrom(s, i + 1, has_service, avail, st)
    ELSE IF i + 1 > Len(s) THEN "raises"
    ELSE IF s[i + 1] = "%" THEN RenderingFrom(s, i + 2, has_service, avail, st)
    ELSE RenderingAfter(s, ParseSpec(s, i + 1, has_service, avail),
                        has_service, st)

\* Formatter(fmt).format(record): it returns ("renders"), or it raises and
\* the handler's emit hands the record to handleError, writing nothing
Rendering(fmt, has_service) == RenderingFrom(fmt, 1, has_service, TRUE, "renders")

(***************************************************************************)
(* The log file: project_root / log_directory / log_file_name, the way     *)
(* pathlib joins them: an absolute right operand replaces what is on its   *)
(* left, "" and "." parts are dropped.  A place of the file system is      *)
(* [abs, up, down]: from the file system's root (abs) or from the project  *)
(* root, up levels above it and then down the names given.                 *)
(***************************************************************************)
RECURSIVE PathParts(_, _)
PathParts(s, part) ==
    LET done == IF part \in {<<>>, <<".">>} THEN <<>> ELSE <<part>>
    IN IF Len(s) = 0 THEN done
       ELSE IF Head(s) = "/" THEN done \o PathParts(Tail(s), <<>>)
       ELSE PathParts(Tail(s), Append(part, Head(s)))

IsAbsolute(s) == Len(s) > 0 /\ s[1] = "/"

HasNul(s) == \E i \in 1..Len(s) : s[i] = "U+0000"

\* Path(__file__).parent.parent, and the root of the file system
ProjectRoot == [abs |-> FALSE, up |-> 0, down |-> <<>>]
FsRoot == [abs |-> TRUE, up |-> 0, down |-> <<>>]

\* the directory is there whatever the file system holds: the project root
\* or one of its ancestors, or the root of the file system
DirExists(dir) ==
    LET p == PathParts(dir, <<>>)
    IN \A i \in 1..Len(p) : p[i] = <<".", ".">>

\* the name leads to the directory on its left (or, absolute, to the root of
\* the file system) or to a "..": never a file
NamesADirectory(name) ==
    LET p == PathParts(name, <<>>)
    IN Len(p) = 0 \/ p[Len(p)] = <<".", ".">>

\* where the parts lead from the place at, ".." taken as the parent (no
\* symbolic link on the way); the root of the file system is its own parent
RECURSIVE Resolve(_, _)
Resolve(parts, at) ==
    IF Len(parts) = 0 THEN at
    ELSE Resolve(Tail(parts),
                 IF Head(parts) # <<".", ".">>
                 THEN [at EXCEPT !.down = Append(@, Head(parts))]
                 ELSE IF Len(at.down) > 0
                 THEN [at EXCEPT !.down = SubSeq(@, 1, Len(@) - 1)]
                 ELSE IF at.abs THEN at
                 ELSE [at EXCEPT !.up = @ + 1])

\* left / right
Join(left, right) ==
    Resolve(PathParts(right, <<>>), IF IsAbsolute(right) THEN FsRoot ELSE left)

\* the log file is a directory once mkdir(parents=True) has gone through:
\* the project root or an ancestor of it, the root of the file system, or a
\* directory on the way to the log directory
OpensADirectory(dir, name) ==
    LET p == PathParts(dir, <<>>)
        base == IF IsAbsolute(dir) THEN FsRoot ELSE ProjectRoot
        file == Join(Join(ProjectRoot, dir), name)
    IN \/ Len(file.down) = 0
       \/ \E k \in 1..Len(p) : file = Resolve(SubSeq(p, 1, k), base)

\* log_path.mkdir(...) or RotatingFileHandler(...) raises
FileFails(cfg, fs) ==
    \/ HasNul(cfg.log_directory)
    \/ fs = "mkdir_fails" /\ ~DirExists(cfg.log_directory)
    \/ HasNul(cfg.log_file_name)
    \/ NamesADirectory(cfg.log_file_name)
    \/ OpensADirectory(cfg.log_directory, cfg.log_file_name)
    \/ fs = "open_fails"

(***************************************************************************)
(* Inputs of a call: the arguments and the environment it runs in.         *)
(***************************************************************************)
ArgNames == {"level", "log_to_console", "log_to_file", "log_dir",
             "log_filename", "log_format", "max_bytes", "backup_count"}
EnvNames == {"LOG_LEVEL", "LOG_TO_CONSOLE", "LOG_TO_FILE", "LOG_DIR",
             "LOG_FILENAME", "LOG_FORMAT", "LOG_MAX_BYTES", "LOG_BACKUP_COUNT"}
Slots == ({"args"} \X ArgNames) \cup ({"env"} \X EnvNames)

\* every argument None, every environment variable absent
NoInput == [args |-> [a \in ArgNames |-> None], env |-> [e \in EnvNames |-> None]]

\* The values tried for each argument and environment variable when the
\* resolution of the configuration is examined on its own.
ResolveVocab == [sl \in Slots |->
    CASE sl = <<"args", "level">> ->
            << <<>>, <<"d","e","b","u","g">>, <<"W","a","r","n","i","n","g">>,
               <<"B","O","G","U","S">>, <<"c","r","i","t","i","c","a","l">>,
               <<"b","a","s","i","c","_","f","o","r","m","a","t">>,
               <<"c","r","U+0131","t","U+0131","c","a","l">> >>
      [] sl = <<"env", "LOG_LEVEL">> ->
            << <<>>, <<"e","r","r","o","r">>, <<"N","O","T","S","E","T">>,
               <<"b","o","g","u","s">>, <<"_","s","t","y","l","e","s">>,
               <<"b","a","U+017F","i","c","_","f","o","r","m","a","t">> >>
      [] sl \in {<<"args", "log_to_console">>, <<"args", "log_to_file">>} ->
            << TRUE, FALSE >>
      [] sl = <<"env", "LOG_TO_CONSOLE">> ->
            << <<"t","r","u","e">>, <<"T","R","U","E">>, <<"T","r","u","e">>,
               <<"y","e","s">>, <<"1">>, <<>>, <<"f","a","l","s","e">> >>
      [] sl = <<"env", "LOG_TO_FILE">> ->
            << <<"t","R","u","E">>, <<"o","n">>, <<>>, <<"t","r","u","e"," ">> >>
      [] sl = <<"args", "log_dir">> -> << <<>>, <<"t","m","p">> >>
      [] sl = <<"env", "LOG_DIR">> -> << <<>>, <<"v","a","r">> >>
      [] sl = <<"args", "log_filename">> -> << <<>>, <<"x",".","l","o","g">> >>
      [] sl = <<"env", "LOG_FILENAME">> -> << <<>>, <<"y",".","l","o","g">> >>
      [] sl = <<"args", "log_format">> ->
            << <<>>, <<"p","l","a","i","n">>,
               <<"%","(","m","e","s","s","a","g","e",")","s">> >>
      [] sl = <<"env", "LOG_FORMAT">> ->
            << <<>>, <<"1","0","0","%">>,
               <<"%","(","s","e","r","v","i","c","e",")","-","8",".","3","S">>,
               <<"%","(","U+00E9",")","s">>,
               <<"%","(","m","e","s","s","a","g","e",")","U+017F">>,
               <<"%","(","m","e","s","s","a","g","e",")",
                 "9","9","9","9","9","9","9","9","9","9",
                 "9","9","9","9","9","9","9","9","9","9","s">>,
               <<"%","(","l","e","v","e","l","n","o",")",".",
                 "2","1","4","7","4","8","3","6","4","5","d">>,
               <<"%","(","m","e","s","s","a","g","e",")",
                 "9","9","9","9","9","9","9","9","9","9","s">> >>
      [] sl = <<"args", "max_bytes">> -> << 0, 7, 0 - 1 >>
      [] sl = <<"env", "LOG_MAX_BYTES">> ->
            << <<"0">>, <<"7">>, <<" ","1","2","\n">>, <<"a","b","c">>, <<>>,
               <<"1","_","0">>, <<"-","3">>, <<"1","_","_","0">>,
               <<"1","2","\r">>, <<"U+0663">>, <<"U+001F","5">> >>
      [] sl = <<"args", "backup_count">> -> << 0, 2 >>
      [] sl = <<"env", "LOG_BACKUP_COUNT">> ->
            << <<"3">>, <<"x">>, <<>>, <<"+","4">>, <<"\f","3">> >> ]

\* The values tried when whole calls are run one after another or in
\* parallel: those that change what a call does to the root logger.
CallVocab == [sl \in Slots |->
    CASE sl = <<"args", "level">> ->
            << <<"c","r","i","t","i","c","a","l">>, <<"e","r","r","o","r">>,
               <<"b","a","s","i","c","_","f","o","r","m","a","t">> >>
      [] sl \in {<<"args", "log_to_console">>, <<"args", "log_to_file">>} ->
            << FALSE >>
      [] sl = <<"args", "log_format">> ->
            << <<"%","(","m","e","s","s","a","g","e",")",".",
                 "9","9","9","9","9","9","9","9","9","9",
                 "9","9","9","9","9","9","9","9","9","9","s">> >>
      [] OTHER -> << >> ]

\* The values tried when threads call at the same time.
ThreadVocab == [sl \in Slots |->
    CASE sl = <<"args", "level">> ->
            << <<"c","r","i","t","i","c","a","l">>,
               <<"b","a","s","i","c","_","f","o","r","m","a","t">> >>
      [] sl = <<"args", "log_to_console">> -> << FALSE >>
      [] OTHER -> << >> ]

\* in with the slot sl given the value v
Provide(in, sl, v) == [in EXCEPT ![sl[1]][sl[2]] = Some(v)]

SlotSeq ==
    << <<"args", "level">>, <<"env", "LOG_LEVEL">>,
       <<"args", "log_format">>, <<"env", "LOG_FORMAT">>,
       <<"args", "log_to_console">>, <<"env", "LOG_TO_CONSOLE">>,
       <<"args", "log_to_file">>, <<"env", "LOG_TO_FILE">>,
       <<"args", "log_dir">>, <<"env", "LOG_DIR">>,
       <<"args", "log_filename">>, <<"env", "LOG_FILENAME">>,
       <<"args", "max_bytes">>, <<"env", "LOG_MAX_BYTES">>,
       <<"args", "backup_count">>, <<"env", "LOG_BACKUP_COUNT">> >>

\* A pick is <<i, j>>: give the i-th slot its j-th value; <<0, 0>> gives
\* nothing.
NoPick == <<0, 0>>
Picks(vocab) ==
    {NoPick} \cup UNION { {<<i, j>> : j \in 1..Len(vocab[SlotSeq[i]])} :
                          i \in 1..Len(SlotSeq) }

ResolvePicks == Picks(ResolveVocab)
CallPicks == Picks(CallVocab)
ThreadPicks == Picks(ThreadVocab)

\* c, a sequence of picks, names each set of given slots once: the picks
\* that give something come last and go up the slots
Ordered(c) ==
    \A j \in 1..(Len(c) - 1) : c[j] = NoPick \/ c[j][1] < c[j + 1][1]

\* the call whose arguments and variables are the first n picks of c
RECURSIVE Build(_, _, _)
Build(vocab, c, n) ==
    IF n = 0 THEN NoInput
    ELSE IF c[n] = NoPick THEN Build(vocab, c, n - 1)
    ELSE Provide(Build(vocab, c, n - 1), SlotSeq[c[n][1]],
                 vocab[SlotSeq[c[n][1]]][c[n][2]])

\* the calls in which at most k arguments and variables are given
PickSeqs(picks, k) == {c \in [1..k -> picks] : Ordered(c)}

ServiceNames == {"svcA", "svcB"}
\* what the file system does to mkdir and to opening the log file
FsOutcomes == {"ok", "mkdir_fails", "open_fails"}

(***************************************************************************)
(* The root logger.  A handler is [id, kind, level, service, fmt]: kind is *)
(* "stdout" (StreamHandler(sys.stdout)), "file" (RotatingFileHandler),     *)
(* "stderr" (the StreamHandler logging.basicConfig creates) or "foreign"   *)
(* (attached by other code); service is the service name of the            *)
(* ServiceNameFilter the handler carries, None when it carries none; fmt   *)
(* is the format string of its formatter.  An output is one record as one  *)
(* handler wrote it, with the service attribute the record had then.       *)
(***************************************************************************)
Threads == 1..NumThreads
MainThread == CHOOSE t \in Threads : \A u \in Threads : t <= u

World == [configured |-> is_configured, level |-> root_level,
          handlers |-> handlers, closed |-> closed, records |-> records,
          received |-> received, next_id |-> next_id]

SetWorld(w) ==
    /\ is_configured' = w.configured
    /\ root_level' = w.level
    /\ handlers' = w.handlers
    /\ closed' = w.closed
    /\ records' = w.records
    /\ received' = w.received
    /\ next_id' = w.next_id

\* ServiceNameFilter.filter: stamps the record and lets it through
ServiceNameFilter(service_name, record) ==
    [record |-> [record EXCEPT !.service = Some(service_name)], pass |-> TRUE]

\* The format of a handler without a formatter, and of the last-resort
\* handler: "%(message)s"
DefaultFmt == FormatterFmt(<<>>)

\* the record rec as the handler h has it
Entry(h, rec) ==
    [handler |-> h.id, kind |-> h.kind, msg |-> rec.msg,
     levelno |-> rec.levelno, service |-> rec.service]

\* what the handler h writes of the record rec, by the outcome of
\* rendering it: the output, nothing, or either when it depends on the memory
\* there is
Emitted(h, rec, rendering) ==
    IF rendering = "renders" THEN {<<Entry(h, rec)>>}
    ELSE IF rendering = "raises" THEN {<<>>}
    ELSE {<<Entry(h, rec)>>, <<>>}

\* Handler.handle(record) for the handler h: the filter stamps the record,
\* then emit takes it (got) and writes it (out), or hands it to handleError
\* and writes nothing when rendering the format raises.  The results
\* possible.
Handle(h, record) ==
    LET f == IF IsNone(h.service)
             THEN [record |-> record, pass |-> TRUE]
             ELSE ServiceNameFilter(Val(h.service), record)
    IN IF f.pass
       THEN { [record |-> f.record, out |-> o, got |-> <<Entry(h, f.record)>>] :
                o \in Emitted(h, f.record,
                              Rendering(h.fmt, ~IsNone(f.record.service))) }
       ELSE {[record |-> f.record, out |-> <<>>, got |-> <<>>]}

\* if record.levelno >= hdlr.level: hdlr.handle(record), in the loop of
\* Logger.callHandlers
Deliver(h, record) ==
    IF record.levelno >= h.level
    THEN Handle(h, record)
    ELSE {[record |-> record, out |-> <<>>, got |-> <<>>]}

\* Logger.callHandlers over the handler list hs; what a filter did to the
\* record stays for the handlers after it.  The results possible: what was
\* written and what the handlers took.
RECURSIVE CallHandlers(_, _)
CallHandlers(hs, record) ==
    IF Len(hs) = 0 THEN {[out |-> <<>>, got |-> <<>>]}
    ELSE UNION { { [out |-> r.out \o rest.out, got |-> r.got \o rest.got] :
                   rest \in CallHandlers(Tail(hs), r.record) } :
                 r \in Deliver(Head(hs), record) }

\* the library's last-resort handler: stderr, WARNING and above
LastResort(record) ==
    IF record.levelno >= WARNING
    THEN <<[handler |-> 0, kind |-> "lastResort", msg |-> record.msg,
            levelno |-> record.levelno, service |-> record.service]>>
    ELSE <<>>

\* the LogRecord of a message logged at levelno
MakeRecord(levelno, msg) == [msg |-> msg, levelno |-> levelno, service |-> None]

\* Logger.isEnabledFor(levelno) on the root
IsEnabledFor(w, levelno) == levelno >= w.level

\* Logger.log on the root: dropped below the root's level; with no handler
\* at all the last-resort handler takes the record.  The worlds possible
\* after it.
RootLog(w, levelno, msg) ==
    IF ~IsEnabledFor(w, levelno) THEN {w}
    ELSE IF Len(w.handlers) = 0
    THEN {[w EXCEPT !.records = @ \o LastResort(MakeRecord(levelno, msg)),
                    !.received = @ \o LastResort(MakeRecord(levelno, msg))]}
    ELSE { [w EXCEPT !.records = @ \o r.out, !.received = @ \o r.got] :
             r \in CallHandlers(w.handlers, MakeRecord(levelno, msg)) }

\* Logger.addHandler of a new handler object
AddHandler(w, kind, level, service, fmt) ==
    [w EXCEPT !.handlers = Append(@, [id |-> w.next_id, kind |-> kind,
                                      level |-> level, service |-> service,
                                      fmt |-> fmt]),
              !.next_id = @ + 1]

\* if len(root.handlers) == 0: basicConfig() -- with no handler on the
\* root, attach a stderr StreamHandler (level NOTSET, no filter, format
\* BASIC_FORMAT); otherwise nothing.
BasicConfig(w) ==
    IF Len(w.handlers) = 0
    THEN AddHandler(w, "stderr", NOTSET, None, BASIC_FORMAT)
    ELSE w

\* the module-level logging.error / logging.info
ModuleLog(w, levelno, msg) == RootLog(BasicConfig(w), levelno, msg)

(***************************************************************************)
(* The statements of setup_logging after the configuration is resolved     *)
(***************************************************************************)
\* root_logger.setLevel(numeric_level)
SetRootLevel(w, level) == [w EXCEPT !.level = level]

\* line 90: root_logger.removeHandler(handler)
RemoveHandler(w, h) ==
    [w EXCEPT !.handlers = SelectSeq(@, LAMBDA x : x.id # h.id)]

\* line 91: handler.close()
CloseHandler(w, h) == [w EXCEPT !.closed = @ \cup {h.id}]

\* one turn of the loop of lines 89-91
RemoveAndClose(w, h) == CloseHandler(RemoveHandler(w, h), h)

\* for handler in root_logger.handlers[:]: ...   (snapshot is the copy)
RECURSIVE ClearHandlers(_, _)
ClearHandlers(w, snapshot) ==
    IF Len(snapshot) = 0 THEN w
    ELSE ClearHandlers(RemoveAndClose(w, Head(snapshot)), Tail(snapshot))

\* if should_log_to_console: ...
ConsoleHandler(w, cfg, level, service_name) ==
    IF cfg.should_log_to_console
    THEN AddHandler(w, "stdout", level, Some(service_name),
                    FormatterFmt(cfg.log_format_str))
    ELSE w

\* What the file block comes to: the world after it, whether it was skipped,
\* attached the handler or failed, and the exception that leaves it, if any
FileResult(w, file, exc) == [w |-> w, file |-> file, exc |-> exc]

\* a file block without its try/except: the failure leaves setup_logging
FileHandler_Mut(w, cfg, level, service_name, fs) ==
    IF cfg.should_log_to_file
    THEN IF ~FileFails(cfg, fs)
         THEN {FileResult(AddHandler(w, "file", level, Some(service_name),
                                     FormatterFmt(cfg.log_format_str)),
                          "attached", None)}
         ELSE {FileResult(w, "failed",
                          Some([exc |-> "Exception", value |-> cfg.log_file_name]))}
    ELSE {FileResult(w, "skipped", None)}

\* if should_log_to_file: try: mkdir, RotatingFileHandler, addHandler
\*                        except Exception: logging.error(...)
\* The results possible.  except Exception takes every failure of the try
\* block, so no exception leaves the block.
FileHandler(w, cfg, level, service_name, fs) ==
    IF cfg.should_log_to_file
    THEN IF ~FileFails(cfg, fs)
         THEN {FileResult(AddHandler(w, "file", level, Some(service_name),
                                     FormatterFmt(cfg.log_format_str)),
                          "attached", None)}
         ELSE { FileResult(w2, "failed", None) :
                w2 \in ModuleLog(w, ERROR, "file_error") }
    ELSE {FileResult(w, "skipped", None)}

\* _is_configured = True
MarkConfigured(w) == [w EXCEPT !.configured = TRUE]

\* logging.info(f"Logging configured for service ...")
Summary(w) == ModuleLog(w, INFO, "summary")

\* a guard that never finds the flag set
AlreadyConfigured_Mut == FALSE

\* if _is_configured: return
AlreadyConfigured == is_configured

(***************************************************************************)
(* State                                                                   *)
(*   is_configured  the module flag _is_configured                         *)
(*   root_level     level of the root logger                               *)
(*   handlers       handler list of the root logger                        *)
(*   closed         ids of the handlers that were closed                   *)
(*   records        outputs written so far, in order                       *)
(*   received       the records handed to a handler's emit so far, in      *)
(*                  order, written or not                                  *)
(*   next_id        identity of the next handler object created            *)
(*   calls          number of setup_logging calls made                     *)
(*   applogs        the records the application logged: the level of each *)
(*                  and whether setup had been done by then                *)
(*   pc, frame      per thread: position in setup_logging, and the call's  *)
(*                  arguments, environment and local variables             *)
(***************************************************************************)
\* Handlers other code attached before setup_logging is first called: a
\* plain handler, and a console handler left by an earlier load of the module.
PreHandler(i) ==
    IF i = 1
    THEN [id |-> i, kind |-> "foreign", level |-> NOTSET, service |-> None,
          fmt |-> DefaultFmt]
    ELSE [id |-> i, kind |-> "stdout", level |-> INFO,
          service |-> Some("svcOld"), fmt |-> DEFAULT_LOG_FORMAT]

NoFrame == [service |-> "", in |-> NoInput, fs |-> "ok", outcome |-> "none",
            raised_at |-> 0, error |-> None, cfg |-> None, level |-> NOTSET,
            snapshot |-> <<>>, noops |-> 0, rec |-> None, idx |-> 0,
            found |-> 0, hdlr |-> None, file |-> "none"]

\* What a call that raised leaves to its caller: the exception, that is the
\* line that raised and the text the exception quotes.  Its locals are gone.
Raised(line, err) ==
    [NoFrame EXCEPT !.outcome = "raised", !.raised_at = line, !.error = Some(err)]

\* int() at line 73 or 74 raises ValueError, quoting its argument
BadLiteral(in, line) ==
    [exc |-> "ValueError",
     value |-> Val(IF line = 73 THEN in.env["LOG_MAX_BYTES"]
                   ELSE in.env["LOG_BACKUP_COUNT"])]

\* logging.Formatter(fmt) raises ValueError, quoting fmt
BadFormat(cfg) == [exc |-> "ValueError", value |-> cfg.log_format_str]

Init ==
    /\ is_configured = FALSE
    /\ root_level = WARNING
    /\ \E n \in 0..MaxPreHandlers :
         /\ handlers = [i \in 1..n |-> PreHandler(i)]
         /\ next_id = n + 1
    /\ closed = {}
    /\ records = <<>>
    /\ received = <<>>
    /\ calls = 0
    /\ applogs = <<>>
    /\ pc = [t \in Threads |-> "idle"]
    /\ frame = [t \in Threads |-> NoFrame]

(***************************************************************************)
(* A whole call of setup_logging that got past the _is_configured test:    *)
(* the world it leaves and how it ended.                                   *)
(***************************************************************************)
\* The results possible.
RunCall(w, service_name, in, fs) ==
    LET cfg == ResolveConfig(in)
        nl == numeric_level(cfg.log_level_str)
        w1 == SetRootLevel(w, nl.val)
        w2 == ClearHandlers(w1, w1.handlers)
        w3 == ConsoleHandler(w2, cfg, nl.val, service_name)
    IN IF cfg.raised_at # 0
       THEN {[w |-> w, frame |-> Raised(cfg.raised_at,
                                        BadLiteral(in, cfg.raised_at))]}
       ELSE IF SetLevelRaises(cfg.log_level_str)
       THEN {[w |-> w, frame |-> Raised(84, SetLevelError(nl))]}
       ELSE IF FormatterRaises(cfg.log_format_str)
       THEN {[w |-> w2, frame |-> Raised(95, BadFormat(cfg))]}
       ELSE UNION { IF ~IsNone(r.exc)
                    THEN {[w |-> r.w,
                           frame |-> [Raised(116, Val(r.exc)) EXCEPT !.file = r.file]]}
                    ELSE { [w |-> w6,
                            frame |-> [service |-> service_name, in |-> in,
                                       fs |-> fs, outcome |-> "returned",
                                       raised_at |-> 0, error |-> None,
                                       cfg |-> Some(cfg), level |-> nl.val,
                                       snapshot |-> w.handlers, noops |-> 0,
                                       rec |-> None, idx |-> 0, found |-> 0,
                                       hdlr |-> None, file |-> r.file]] :
                           w6 \in Summary(MarkConfigured(r.w)) } :
                    r \in FileHandler(w3, cfg, nl.val, service_name, fs) }

\* setup_logging(service_name, **in.args) run to its end by thread t, with
\* the environment in.env and the file system answering fs
SetupLogging(t, service_name, in, fs) ==
    /\ calls < MaxCalls
    /\ \A u \in Threads : pc[u] = "idle"
    /\ calls' = calls + 1
    /\ UNCHANGED <<applogs, pc>>
    /\ IF AlreadyConfigured
       THEN /\ frame' = [frame EXCEPT ![t].noops = @ + 1]
            /\ UNCHANGED <<is_configured, root_level, handlers, closed,
                           records, received, next_id>>
       ELSE \E r \in RunCall(World, service_name, in, fs) :
               /\ SetWorld(r.w)
               /\ frame' = [frame EXCEPT ![t] = r.frame]

\* the level the application logs at: above the default of the root, below
\* the highest level a call can set
AppLevels == {WARNING}

\* getLogger().log(levelno, ...) somewhere in the application
AppLog(levelno) ==
    /\ Len(applogs) < MaxAppLogs
    /\ \A u \in Threads : pc[u] = "idle"
    /\ applogs' = Append(applogs, [levelno |-> levelno, configured |-> is_configured])
    /\ \E w \in RootLog(World, levelno, "app") : SetWorld(w)
    /\ UNCHANGED <<calls, pc, frame>>

Call ==
    \E c \in PickSeqs(CallPicks, MaxProvidedCall) :
      \E in \in {Build(CallVocab, c, MaxProvidedCall)} :
        \E service_name \in ServiceNames, fs \in FsOutcomes :
          SetupLogging(MainThread, service_name, in, fs)

Emit == \E levelno \in AppLevels : AppLog(levelno)

Next == Call \/ Emit

Spec == Init /\ [][Next]_vars

(***************************************************************************)
(* The first call alone, over the wider vocabulary: the resolution of the  *)
(* configuration as a function of the arguments and the environment.       *)
(***************************************************************************)
ResolveCall ==
    /\ calls = 0
    /\ \E c \in PickSeqs(ResolvePicks, MaxProvided) :
         \E in \in {Build(ResolveVocab, c, MaxProvided)} :
           SetupLogging(MainThread, "svcA", in, "ok")

NextResolve == ResolveCall

SpecResolve == Init /\ [][NextResolve]_vars

(***************************************************************************)
(* Threads calling setup_logging at the same time.  The routine takes no   *)
(* lock of its own; each step below is one statement group whose effect on *)
(* the root logger the logging library makes atomic under its own locks    *)
(* (setLevel, removeHandler, close, addHandler, basicConfig, the iterator  *)
(* of callHandlers yielding a handler, a handler taking a record), and     *)
(* threads interleave between the steps.  In a frame, rec is the record    *)
(* logging.error or logging.info is handing to the handlers, idx the       *)
(* position of the list iterator of Logger.callHandlers in root.handlers,  *)
(* found the number of handlers it came by and hdlr the handler it         *)
(* yielded last, until that handler has taken the record.                  *)
(***************************************************************************)
ServiceOf(t) == IF t = 1 THEN "svcA" ELSE "svcB"

Goto(t, label) == pc' = [pc EXCEPT ![t] = label]

\* lines 60-74: the _is_configured test and the resolution of the configuration
T_Enter(t, in, fs) ==
    /\ pc[t] = "idle"
    /\ calls < MaxThreadCalls
    /\ calls' = calls + 1
    /\ UNCHANGED <<is_configured, root_level, handlers, closed, records,
                   received, next_id, applogs>>
    /\ IF AlreadyConfigured
       THEN /\ frame' = [frame EXCEPT ![t].noops = @ + 1]
            /\ UNCHANGED pc
       ELSE \E cfg \in {ResolveConfig(in)} :
              /\ frame' = [frame EXCEPT ![t] =
                    IF cfg.raised_at # 0
                    THEN Raised(cfg.raised_at, BadLiteral(in, cfg.raised_at))
                    ELSE [service |-> ServiceOf(t), in |-> in, fs |-> fs,
                          outcome |-> "running", raised_at |-> 0,
                          error |-> None, cfg |-> Some(cfg), level |-> NOTSET,
                          snapshot |-> <<>>, noops |-> 0, rec |-> None,
                          idx |-> 0, found |-> 0, hdlr |-> None,
                          file |-> "none"]]
              /\ Goto(t, IF cfg.raised_at # 0 THEN "idle" ELSE "setlevel")

\* lines 83-84: numeric_level = getattr(...); root_logger.setLevel(numeric_level)
T_SetLevel(t) ==
    /\ pc[t] = "setlevel"
    /\ \E cfg \in {Val(frame[t].cfg)} :
         IF SetLevelRaises(cfg.log_level_str)
         THEN /\ frame' = [frame EXCEPT ![t] =
                        Raised(84, SetLevelError(numeric_level(cfg.log_level_str)))]
              /\ Goto(t, "idle")
              /\ UNCHANGED <<is_configured, root_level, handlers, closed,
                             records, received, next_id>>
         ELSE \E nl \in {numeric_level(cfg.log_level_str)} :
              /\ SetWorld(SetRootLevel(World, nl.val))
              /\ frame' = [frame EXCEPT ![t].level = nl.val]
              /\ Goto(t, "snapshot")
    /\ UNCHANGED <<calls, applogs>>

\* line 89: root_logger.handlers[:]
T_Snapshot(t) ==
    /\ pc[t] = "snapshot"
    /\ frame' = [frame EXCEPT ![t].snapshot = handlers]
    /\ Goto(t, "clear")
    /\ UNCHANGED <<is_configured, root_level, handlers, closed, records,
                   received, next_id, calls, applogs>>

\* line 90, in a turn of the loop: root_logger.removeHandler(handler)
T_Remove(t) ==
    /\ pc[t] = "clear"
    /\ Len(frame[t].snapshot) > 0
    /\ \E w \in {RemoveHandler(World, Head(frame[t].snapshot))} : SetWorld(w)
    /\ Goto(t, "close")
    /\ UNCHANGED <<frame, calls, applogs>>

\* line 91: handler.close(), and on to the next turn
T_Close(t) ==
    /\ pc[t] = "close"
    /\ \E w \in {CloseHandler(World, Head(frame[t].snapshot))} : SetWorld(w)
    /\ frame' = [frame EXCEPT ![t].snapshot = Tail(@)]
    /\ Goto(t, "clear")
    /\ UNCHANGED <<calls, applogs>>

\* line 95: formatter = logging.Formatter(log_format_str), after the loop
T_Formatter(t) ==
    /\ pc[t] = "clear"
    /\ Len(frame[t].snapshot) = 0
    /\ IF FormatterRaises(Val(frame[t].cfg).log_format_str)
       THEN /\ frame' = [frame EXCEPT ![t] =
                    Raised(95, BadFormat(Val(frame[t].cfg)))]
            /\ Goto(t, "idle")
       ELSE /\ UNCHANGED frame
            /\ Goto(t, "console")
    /\ UNCHANGED <<is_configured, root_level, handlers, closed, records,
                   received, next_id, calls, applogs>>

\* lines 101-107
T_Console(t) ==
    /\ pc[t] = "console"
    /\ \E w \in {ConsoleHandler(World, Val(frame[t].cfg), frame[t].level,
                                frame[t].service)} : SetWorld(w)
    /\ Goto(t, "file")
    /\ UNCHANGED <<frame, calls, applogs>>

\* root.error / root.info after the basicConfig test: Logger.isEnabledFor,
\* then the LogRecord is made and Logger.callHandlers begins
LogBegin(t, at, levelno, msg, to, after) ==
    /\ pc[t] = at
    /\ IF IsEnabledFor(World, levelno)
       THEN /\ frame' = [frame EXCEPT ![t].rec = Some(MakeRecord(levelno, msg)),
                                      ![t].idx = 1, ![t].found = 0]
            /\ Goto(t, to)
       ELSE /\ UNCHANGED frame
            /\ Goto(t, after)
    /\ UNCHANGED <<is_configured, root_level, handlers, closed, records,
                   received, next_id, calls, applogs>>

\* for hdlr in c.handlers: the iterator yields the next handler of the list
\* as it is now, or the loop ends; if (found == 0) sends a record no handler
\* was found for on to the last-resort handler
LogFetch(t, at, to, last, after) ==
    /\ pc[t] = at
    /\ IF frame[t].idx <= Len(handlers)
       THEN /\ frame' = [frame EXCEPT ![t].hdlr = Some(handlers[frame[t].idx]),
                                      ![t].idx = @ + 1, ![t].found = @ + 1]
            /\ Goto(t, to)
       ELSE IF frame[t].found = 0
       THEN /\ frame' = [frame EXCEPT ![t].idx = 0]
            /\ Goto(t, last)
       ELSE /\ frame' = [frame EXCEPT ![t].rec = None, ![t].idx = 0,
                                      ![t].found = 0]
            /\ Goto(t, after)
    /\ UNCHANGED <<is_configured, root_level, handlers, closed, records,
                   received, next_id, calls, applogs>>

\* if record.levelno >= lastResort.level: lastResort.handle(record), whatever
\* the handler list has become since the loop ended
LogLast(t, at, after) ==
    /\ pc[t] = at
    /\ \E last \in {LastResort(Val(frame[t].rec))} :
         /\ records' = records \o last
         /\ received' = received \o last
    /\ frame' = [frame EXCEPT ![t].rec = None, ![t].idx = 0, ![t].found = 0]
    /\ Goto(t, after)
    /\ UNCHANGED <<is_configured, root_level, handlers, closed, next_id,
                   calls, applogs>>

\* the body of the loop, for the handler fetched: if record.levelno >=
\* hdlr.level: hdlr.handle(record)
LogEmit(t, at, back) ==
    /\ pc[t] = at
    /\ \E r \in Deliver(Val(frame[t].hdlr), Val(frame[t].rec)) :
         /\ records' = records \o r.out
         /\ received' = received \o r.got
         /\ frame' = [frame EXCEPT ![t].rec = Some(r.record), ![t].hdlr = None]
    /\ Goto(t, back)
    /\ UNCHANGED <<is_configured, root_level, handlers, closed, next_id,
                   calls, applogs>>

\* lines 110-128: the try block
T_File(t) ==
    /\ pc[t] = "file"
    /\ \E cfg \in {Val(frame[t].cfg)} :
         IF cfg.should_log_to_file /\ FileFails(cfg, frame[t].fs)
         THEN /\ frame' = [frame EXCEPT ![t].file = "failed"]
              /\ Goto(t, "err_config")
              /\ UNCHANGED <<is_configured, root_level, handlers, closed,
                             records, received, next_id>>
         ELSE /\ \E r \in FileHandler(World, cfg, frame[t].level,
                                      frame[t].service, frame[t].fs) :
                   /\ SetWorld(r.w)
                   /\ frame' = [frame EXCEPT ![t].file = r.file]
              /\ Goto(t, "mark")
    /\ UNCHANGED <<calls, applogs>>

\* line 130, logging.error: if len(root.handlers) == 0: basicConfig()
T_ErrConfig(t) ==
    /\ pc[t] = "err_config"
    /\ SetWorld(BasicConfig(World))
    /\ Goto(t, "err_log")
    /\ UNCHANGED <<frame, calls, applogs>>

\* line 130, logging.error: root.error(msg, exc_info=True)
T_ErrLog(t) == LogBegin(t, "err_log", ERROR, "file_error", "err_handle", "mark")
T_ErrFetch(t) == LogFetch(t, "err_handle", "err_emit", "err_last", "mark")
T_ErrEmit(t) == LogEmit(t, "err_emit", "err_handle")
T_ErrLast(t) == LogLast(t, "err_last", "mark")

\* line 134
T_Mark(t) ==
    /\ pc[t] = "mark"
    /\ \E w \in {MarkConfigured(World)} : SetWorld(w)
    /\ Goto(t, "sum_config")
    /\ UNCHANGED <<frame, calls, applogs>>

\* line 135, logging.info: if len(root.handlers) == 0: basicConfig()
T_SumConfig(t) ==
    /\ pc[t] = "sum_config"
    /\ SetWorld(BasicConfig(World))
    /\ Goto(t, "sum_log")
    /\ UNCHANGED <<frame, calls, applogs>>

\* line 135, logging.info: root.info(msg)
T_SumLog(t) == LogBegin(t, "sum_log", INFO, "summary", "sum_handle", "return")
T_SumFetch(t) == LogFetch(t, "sum_handle", "sum_emit", "sum_last", "return")
T_SumEmit(t) == LogEmit(t, "sum_emit", "sum_handle")
T_SumLast(t) == LogLast(t, "sum_last", "return")

\* the end of the function
T_Return(t) ==
    /\ pc[t] = "return"
    /\ frame' = [frame EXCEPT ![t].outcome = "returned"]
    /\ Goto(t, "idle")
    /\ UNCHANGED <<is_configured, root_level, handlers, closed, records,
                   received, next_id, calls, applogs>>

\* the positions of a call after line 134
AfterMark == {"sum_config", "sum_log", "sum_handle", "sum_emit", "sum_last",
              "return"}

Enter ==
    \E t \in Threads, fs \in FsOutcomes :
      \E c \in PickSeqs(ThreadPicks, MaxProvidedThread) :
        \E in \in {Build(ThreadVocab, c, MaxProvidedThread)} : T_Enter(t, in, fs)
StepSetLevel == \E t \in Threads : T_SetLevel(t)
StepSnapshot == \E t \in Threads : T_Snapshot(t)
StepRemove == \E t \in Threads : T_Remove(t)
StepClose == \E t \in Threads : T_Close(t)
StepFormatter == \E t \in Threads : T_Formatter(t)
StepConsole == \E t \in Threads : T_Console(t)
StepFile == \E t \in Threads : T_File(t)
StepErrConfig == \E t \in Threads : T_ErrConfig(t)
StepErrLog == \E t \in Threads : T_ErrLog(t)
StepErrFetch == \E t \in Threads : T_ErrFetch(t)
StepErrEmit == \E t \in Threads : T_ErrEmit(t)
StepErrLast == \E t \in Threads : T_ErrLast(t)
StepMark == \E t \in Threads : T_Mark(t)
StepSumConfig == \E t \in Threads : T_SumConfig(t)
StepSumLog == \E t \in Threads : T_SumLog(t)
StepSumFetch == \E t \in Threads : T_SumFetch(t)
StepSumEmit == \E t \in Threads : T_SumEmit(t)
StepSumLast == \E t \in Threads : T_SumLast(t)
StepReturn == \E t \in Threads : T_Return(t)

NextThreads ==
    \/ Enter \/ StepSetLevel \/ StepSnapshot \/ StepRemove \/ StepClose
    \/ StepFormatter \/ StepConsole \/ StepFile \/ StepErrConfig \/ StepErrLog
    \/ StepErrFetch \/ StepErrEmit \/ StepErrLast \/ StepMark \/ StepSumConfig
    \/ StepSumLog \/ StepSumFetch \/ StepSumEmit \/ StepSumLast \/ StepReturn

SpecThreads == Init /\ [][NextThreads]_vars

(***************************************************************************)
(* One thread running setup_logging statement by statement: the order of   *)
(* the effects inside a call.  With no other thread the handler that       *)
(* basicConfig attaches is still on the root when callHandlers runs, so    *)
(* found is never 0 at the end of its loop and the last-resort handler     *)
(* takes no record.                                                        *)
(***************************************************************************)
S_Enter ==
    \E fs \in FsOutcomes :
      \E c \in PickSeqs(CallPicks, MaxProvidedCall) :
        \E in \in {Build(CallVocab, c, MaxProvidedCall)} :
          T_Enter(MainThread, in, fs)
S_SetLevel == T_SetLevel(MainThread)
S_Snapshot == T_Snapshot(MainThread)
S_Remove == T_Remove(MainThread)
S_Close == T_Close(MainThread)
S_Formatter == T_Formatter(MainThread)
S_Console == T_Console(MainThread)
S_File == T_File(MainThread)
S_ErrConfig == T_ErrConfig(MainThread)
S_ErrLog == T_ErrLog(MainThread)
S_ErrFetch == T_ErrFetch(MainThread)
S_ErrEmit == T_ErrEmit(MainThread)
S_Mark == T_Mark(MainThread)
S_SumConfig == T_SumConfig(MainThread)
S_SumLog == T_SumLog(MainThread)
S_SumFetch == T_SumFetch(MainThread)
S_SumEmit == T_SumEmit(MainThread)
S_Return == T_Return(MainThread)

NextSteps ==
    \/ S_Enter \/ S_SetLevel \/ S_Snapshot \/ S_Remove \/ S_Close
    \/ S_Formatter \/ S_Console \/ S_File \/ S_ErrConfig \/ S_ErrLog
    \/ S_ErrFetch \/ S_ErrEmit \/ S_Mark \/ S_SumConfig \/ S_SumLog
    \/ S_SumFetch \/ S_SumEmit \/ S_Return

SpecSteps == Init /\ [][NextSteps]_vars

(***************************************************************************)
(* Properties                                                              *)
(***************************************************************************)
Main == frame[MainThread]
MainCfg == Val(Main.cfg)
\* the main thread's last call that got past the flag test resolved its
\* configuration and has not raised
MainResolved == Main.outcome # "none" /\ ~IsNone(Main.cfg)

\* s equals "true" when case is ignored, spelled out letter by letter
IsTrueIgnoringCase(s) ==
    /\ Len(s) = 4
    /\ s[1] \in {"t", "T"} /\ s[2] \in {"r", "R"}
    /\ s[3] \in {"u", "U"} /\ s[4] \in {"e", "E"}

EqIgnoringCase(a, b) ==
    Len(a) = Len(b) /\ \A i \in 1..Len(a) : LowerChar(a[i]) = LowerChar(b[i])

\* the severity a level string stands for: the level it names when case is
\* ignored, INFO when it names none
ExpectedLevel(s) ==
    IF \E n \in LevelNames : EqIgnoringCase(s, n)
    THEN LevelOfName(CHOOSE n \in LevelNames : EqIgnoringCase(s, n))
    ELSE INFO

\* argument, else environment variable, else default
Precedence(arg, envv, default) ==
    IF ~IsNone(arg) THEN Val(arg) ELSE IF ~IsNone(envv) THEN Val(envv) ELSE default

\* C1: once _is_configured is true, a further call of setup_logging changes
\* neither the root's handlers and level nor the flag, closes nothing and
\* emits no record; the root keeps the handlers of the first successful call.
C1_ConfiguredCallIsNoOp ==
    [][(is_configured /\ calls' # calls) =>
          UNCHANGED <<is_configured, root_level, handlers, closed, records,
                      received, next_id>>]_vars

\* a call was made, and ignored, after a call had configured the root
C1_Witness ==
    /\ is_configured
    /\ Main.outcome = "returned"
    /\ Main.noops >= 1
    /\ Len(handlers) >= 1

\* C2: each of the eight fields resolves to the argument whenever the argument
\* is given (whatever its value), else to the environment variable when set,
\* else to the default.
C2_ArgumentAlwaysWins ==
    MainResolved =>
      LET a == Main.in.args
          e == Main.in.env
      IN /\ MainCfg.log_level_str = Precedence(a.level, e.LOG_LEVEL, DEFAULT_LOG_LEVEL)
         /\ MainCfg.log_format_str = Precedence(a.log_format, e.LOG_FORMAT, DEFAULT_LOG_FORMAT)
         /\ MainCfg.log_directory = Precedence(a.log_dir, e.LOG_DIR, DEFAULT_LOG_DIR)
         /\ MainCfg.log_file_name = Precedence(a.log_filename, e.LOG_FILENAME, DEFAULT_LOG_FILENAME)
         /\ ~IsNone(a.log_to_console) => MainCfg.should_log_to_console = Val(a.log_to_console)
         /\ ~IsNone(a.log_to_file) => MainCfg.should_log_to_file = Val(a.log_to_file)
         /\ ~IsNone(a.max_bytes) => MainCfg.max_log_bytes = a.max_bytes
         /\ ~IsNone(a.backup_count) => MainCfg.backup_log_count = a.backup_count
         /\ IsNone(a.max_bytes) /\ IsNone(e.LOG_MAX_BYTES)
              => MainCfg.max_log_bytes = Some(DEFAULT_LOG_MAX_BYTES)
         /\ IsNone(a.backup_count) /\ IsNone(e.LOG_BACKUP_COUNT)
              => MainCfg.backup_log_count = Some(DEFAULT_LOG_BACKUP_COUNT)

\* what a boolean field resolves to when its argument is None, as first stated:
\* enabled exactly when the variable is set to "true" in any case
FlagAsStated(envv) == ~IsNone(envv) /\ IsTrueIgnoringCase(Val(envv))
\* and as the code has it: an absent variable yields the default, enabled
FlagAsAmended(envv) == IsNone(envv) \/ IsTrueIgnoringCase(Val(envv))

\* C3 as first stated: with the argument None the flag is enabled exactly when
\* the variable is set to "true" ignoring case; absent means disabled.
C3_AbsentMeansDisabled ==
    MainResolved =>
      /\ IsNone(Main.in.args.log_to_console)
           => MainCfg.should_log_to_console = FlagAsStated(Main.in.env.LOG_TO_CONSOLE)
      /\ IsNone(Main.in.args.log_to_file)
           => MainCfg.should_log_to_file = FlagAsStated(Main.in.env.LOG_TO_FILE)

\* C3: with the argument None the flag is enabled exactly when the variable is
\* absent (the default, enabled) or set to "true" ignoring case; every other
\* value of the variable disables it.
C3_EnvFlag ==
    MainResolved =>
      /\ IsNone(Main.in.args.log_to_console)
           => MainCfg.should_log_to_console = FlagAsAmended(Main.in.env.LOG_TO_CONSOLE)
      /\ IsNone(Main.in.args.log_to_file)
           => MainCfg.should_log_to_file = FlagAsAmended(Main.in.env.LOG_TO_FILE)

\* LOG_TO_CONSOLE=TRUE with no argument resolved to enabled
C3_Witness ==
    /\ MainResolved
    /\ IsNone(Main.in.args.log_to_console)
    /\ Main.in.env.LOG_TO_CONSOLE = Some(<<"T","R","U","E">>)
    /\ MainCfg.should_log_to_console

\* C4: whatever strings LOG_MAX_BYTES and LOG_BACKUP_COUNT hold, setup_logging
\* does not raise on them: a malformed value falls back to the default and the
\* call goes on.
C4_MalformedNumberFallsBack ==
    Main.outcome # "none" =>
      /\ Main.raised_at \notin {73, 74}
      /\ MainResolved =>
           /\ (IsNone(Main.in.args.max_bytes) /\ ~IsNone(Main.in.env.LOG_MAX_BYTES)
                 /\ ~PyIntOfStr(Val(Main.in.env.LOG_MAX_BYTES)).ok)
                => MainCfg.max_log_bytes = Some(DEFAULT_LOG_MAX_BYTES)
           /\ (IsNone(Main.in.args.backup_count) /\ ~IsNone(Main.in.env.LOG_BACKUP_COUNT)
                 /\ ~PyIntOfStr(Val(Main.in.env.LOG_BACKUP_COUNT)).ok)
                => MainCfg.backup_log_count = Some(DEFAULT_LOG_BACKUP_COUNT)

\* C5: the level string maps to a severity whatever its case, a string naming
\* no severity maps to INFO and never makes the call raise, and the root and
\* every attached handler get that severity.
C5_LevelMapping ==
    Main.outcome # "none" =>
      /\ Main.raised_at # 84
      /\ Main.outcome = "returned" =>
           /\ root_level = ExpectedLevel(MainCfg.log_level_str)
           /\ \A i \in 1..Len(handlers) :
                handlers[i].level = ExpectedLevel(MainCfg.log_level_str)

\* the outputs in which msg at severity levelno was rendered
Outputs(msg, levelno) ==
    {i \in 1..Len(records) : records[i].msg = msg /\ records[i].levelno = levelno}
\* ... by the handler id
OutputsBy(id, msg, levelno) ==
    {i \in Outputs(msg, levelno) : records[i].handler = id}

AttachedIds == {handlers[i].id : i \in 1..Len(handlers)}
Attached(kind) == {i \in 1..Len(handlers) : handlers[i].kind = kind}

\* the records a handler took of msg at severity levelno, written or not
Received(msg, levelno) ==
    {i \in 1..Len(received) : received[i].msg = msg /\ received[i].levelno = levelno}
\* ... the handler id
ReceivedBy(id, msg, levelno) ==
    {i \in Received(msg, levelno) : received[i].handler = id}

\* the main thread's last call that got past the flag test came to its file
\* block with file output enabled, and the file system refused the directory
\* or the file; the call has ended, by returning or by raising
MainFileFailed ==
    /\ Main.outcome \in {"returned", "raised"}
    /\ Main.file = "failed"

\* the severity that call resolved
MainLevel == Main.level

\* C6 as first stated: on a file failure the call returns, no file handler is
\* attached, an error record and the summary record are emitted, the flag is
\* set, and an enabled console handler is attached and receives the error
\* record and the later ones.
C6_FailureAlwaysReported ==
    MainFileFailed =>
      /\ Main.outcome = "returned"
      /\ is_configured
      /\ Attached("file") = {}
      /\ Received("file_error", ERROR) # {}
      /\ Received("summary", INFO) # {}
      /\ MainCfg.should_log_to_console =>
           \E i \in Attached("stdout") :
             /\ ReceivedBy(handlers[i].id, "file_error", ERROR) # {}
             /\ \A k \in 1..Len(applogs) :
                  applogs[k].configured =>
                    ReceivedBy(handlers[i].id, "app", applogs[k].levelno) # {}

\* C6: on a file failure the call returns, no file handler is attached and the
\* flag is set; the error record is emitted exactly when the resolved severity
\* is ERROR or lower and the summary exactly when it is INFO or lower; an
\* enabled console handler is attached and receives each of the two records
\* and every later record exactly when the record is at or above the resolved
\* severity.
C6_FailureReportedAtLevel ==
    MainFileFailed =>
      /\ Main.outcome = "returned"
      /\ is_configured
      /\ Attached("file") = {}
      /\ (Received("file_error", ERROR) # {}) <=> MainLevel <= ERROR
      /\ (Received("summary", INFO) # {}) <=> MainLevel <= INFO
      /\ MainCfg.should_log_to_console =>
           \E i \in Attached("stdout") :
             /\ (ReceivedBy(handlers[i].id, "file_error", ERROR) # {})
                  <=> MainLevel <= ERROR
             /\ (ReceivedBy(handlers[i].id, "summary", INFO) # {})
                  <=> MainLevel <= INFO
             /\ \A k \in 1..Len(applogs) :
                  applogs[k].configured =>
                    ((ReceivedBy(handlers[i].id, "app", applogs[k].levelno) # {})
                       <=> MainLevel <= applogs[k].levelno)

\* the file could not be opened at a severity between INFO and ERROR: the
\* console handler got the error record and no summary, and the application
\* logged a record afterwards
C6_Witness ==
    /\ MainFileFailed
    /\ Main.outcome = "returned"
    /\ FileFails(MainCfg, Main.fs)
    /\ MainCfg.should_log_to_console
    /\ INFO < MainLevel /\ MainLevel <= ERROR
    /\ \E i \in Attached("stdout") :
         /\ ReceivedBy(handlers[i].id, "file_error", ERROR) # {}
         /\ ReceivedBy(handlers[i].id, "summary", INFO) = {}
    /\ \E k \in 1..Len(applogs) : applogs[k].configured

\* C7: after a successful call every handler on the root carries the filter of
\* that call's service name, and every record a handler of the root renders
\* from then on carries that name, whatever the console and file flags are.
C7_EveryHandlerTagged ==
    (is_configured /\ Main.outcome = "returned") =>
      /\ \A i \in 1..Len(handlers) : handlers[i].service = Some(Main.service)
      /\ \A k \in 1..Len(records) :
           records[k].handler \in AttachedIds => records[k].service = Some(Main.service)

\* C8: however the calls of several threads interleave, the root never holds
\* more than one console handler and one file handler, and no more than one
\* call gets to emit the summary record.
C8_AtMostOneSinkSet ==
    /\ Cardinality(Attached("stdout")) <= 1
    /\ Cardinality(Attached("file")) <= 1
    /\ Cardinality({t \in Threads : frame[t].outcome = "returned"
                                     /\ frame[t].level <= INFO}) <= 1

\* C9: the flag is false at the start; it turns true only at the statement
\* that follows sink construction, and that is the call's last change of state:
\* all that is left is the emission of the summary record; once true it stays
\* true; a call that raises leaves it false.
C9_FlagLifecycle ==
    /\ [](calls = 0 => ~is_configured)
    /\ [][is_configured => is_configured']_vars
    /\ [][(~is_configured /\ is_configured') =>
            (pc[MainThread] = "mark" /\ pc'[MainThread] = "sum_config")]_vars
    /\ [][pc[MainThread] \in AfterMark =>
            UNCHANGED <<is_configured, root_level, handlers, closed, next_id>>]_vars
    /\ [][(Main.outcome # "raised" /\ frame'[MainThread].outcome = "raised") =>
            (~is_configured /\ ~is_configured')]_vars

\* C10: after the first successful call every handler attached before it has
\* been removed and closed, and the root holds exactly a new console handler
\* iff console output is enabled and a new file handler iff file output is
\* enabled and the file opened; with both disabled it holds none.
C10_ExactHandlerSet ==
    (is_configured /\ Main.outcome = "returned") =>
      LET want == (IF MainCfg.should_log_to_console THEN <<"stdout">> ELSE <<>>)
                  \o (IF MainCfg.should_log_to_file /\ ~FileFails(MainCfg, Main.fs)
                      THEN <<"file">> ELSE <<>>)
      IN /\ \A i \in 1..Len(Main.snapshot) :
              Main.snapshot[i].id \in closed \ AttachedIds
         /\ \A id \in 1..(next_id - 1) : id \in closed \/ id \in AttachedIds
         /\ Len(handlers) = Len(want)
         /\ \A i \in 1..Len(handlers) :
              /\ handlers[i].kind = want[i]
              /\ handlers[i].id \notin closed

====
